---- MODULE Spec2Model ----
(***************************************************************************)
(* Model of the import side of the gravity code generator                  *)
(* (cmd/gravity/src/codegen/imports.rs): ImportAnalyzer builds the         *)
(* AnalyzedImports IR from a resolved WIT world, ImportCodeGenerator       *)
(* renders it as a stream of Go tokens (format_into) and as one host       *)
(* module builder chain per imported interface (import_chains).            *)
(*                                                                         *)
(* Strings.  A WIT name is kebab-case; it is modelled as the sequence of   *)
(* its words, <<"test", "world">> for test-world.  Emitted Go text is a    *)
(* sequence of tokens, each token a string, as genco's Tokens<Go> is.      *)
(***************************************************************************)
EXTENDS Integers, Sequences, FiniteSets, TLC

(***************************************************************************)
(* Bounds of the explored inputs.                                          *)
(***************************************************************************)
MaxImports == 2
MaxFields == 2
MaxCases == 2
MaxParams == 2
MaxRuns == 2
MaxResults == 2
MaxTypes == 3

(***************************************************************************)
(* Generic helpers.                                                        *)
(***************************************************************************)
None == [some |-> FALSE]
Some(v) == [some |-> TRUE, v |-> v]

RECURSIVE Flatten(_)
Flatten(ss) == IF ss = <<>> THEN <<>> ELSE Head(ss) \o Flatten(Tail(ss))

Range(s) == {s[i] : i \in 1..Len(s)}

\* Sequences over S of length at most n.
SeqUpTo(S, n) == UNION {[1..k -> S] : k \in 0..n}

NoDup(s) == \A i, j \in 1..Len(s) : s[i] = s[j] => i = j

\* The tokens of ts, each followed by the tokens of sep, except the last
\* (genco's `for x in xs join (sep) => x`).
RECURSIVE Join(_, _)
Join(ts, sep) ==
    IF ts = <<>> THEN <<>>
    ELSE IF Len(ts) = 1 THEN Head(ts)
    ELSE Head(ts) \o sep \o Join(Tail(ts), sep)

(***************************************************************************)
(* Identifier mint: GoIdentifier::public / GoIdentifier::private.          *)
(***************************************************************************)
\* The word with its first letter in upper case.
Cap(w) ==
    CASE w = "foo" -> "Foo" [] w = "bar" -> "Bar" [] w = "logger" -> "Logger"
      [] w = "log" -> "Log" [] w = "types" -> "Types" [] w = "test" -> "Test"
      [] w = "world" -> "World" [] w = "pkg" -> "Pkg" [] w = "status" -> "Status"
      [] w = "ok" -> "Ok" [] w = "error" -> "Error" [] w = "message" -> "Message"
      [] w = "s" -> "S" [] w = "x" -> "X" [] w = "y" -> "Y" [] w = "z" -> "Z"
      [] w = "float32" -> "Float32" [] w = "float64" -> "Float64"
      [] w = "uint32" -> "Uint32" [] w = "uint64" -> "Uint64"
      [] w = "my" -> "My" [] w = "alias" -> "Alias"
      [] w = "a" -> "A" [] w = "b" -> "B" [] w = "c" -> "C" [] w = "i" -> "I"
      [] w = "is" -> "Is" [] w = "err0" -> "Err0" [] w = "err1" -> "Err1"
      [] w = "err2" -> "Err2" [] w = "err3" -> "Err3"
      [] w = "factory" -> "Factory" [] w = "instance" -> "Instance"
      [] w = "new" -> "New" [] w = "ping" -> "Ping" [] w = "type" -> "Type"
      [] w = "host" -> "Host" [] w = "shape" -> "Shape"
      [] w = "compute" -> "Compute"

\* Reserved words of Go that occur in the vocabulary.
GoKeywords == {"type"}

RECURSIVE Concat(_)
Concat(ws) == IF ws = <<>> THEN "" ELSE Head(ws) \o Concat(Tail(ws))

\* The pieces of the kebab-case text of a name: its words with "-" between.
RECURSIVE KebabPieces(_)
KebabPieces(n) ==
    IF n = <<>> THEN <<>>
    ELSE IF Len(n) = 1 THEN <<n[1]>>
    ELSE <<n[1], "-">> \o KebabPieces(Tail(n))

\* The kebab-case text of a name.
Kebab(n) == Concat(KebabPieces(n))

\* A keyword is suffixed with an underscore.
Escape(ident) == IF ident \in GoKeywords THEN ident \o "_" ELSE ident

\* GoIdentifier::public: UpperCamel of the words.
public(n) == Escape(Concat([i \in 1..Len(n) |-> Cap(n[i])]))

\* GoIdentifier::private: lowerCamel of the words.
private(n) ==
    IF n = <<>> THEN ""
    ELSE Escape(n[1] \o Concat([i \in 1..(Len(n) - 1) |-> Cap(n[i + 1])]))

(***************************************************************************)
(* WIT types (wit_parser::Type) and Go types (GoType).                     *)
(***************************************************************************)
Prim(p) == [tag |-> "prim", p |-> p, id |-> 0]
TId(i) == [tag |-> "id", p |-> "", id |-> i]

Primitives == {"bool", "u8", "u16", "u32", "u64", "s8", "s16", "s32", "s64",
               "f32", "f64", "char", "string"}

\* TypeDefKind constructors.
Record(fields) == [kind |-> "Record", fields |-> fields]
Enum(cases) == [kind |-> "Enum", cases |-> cases]
Variant(cases) == [kind |-> "Variant", cases |-> cases]
TypeOf(t) == [kind |-> "Type", ty |-> t]
Other(k) == [kind |-> k]

\* TypeDefKinds whose analysis is a todo!() or panic!().
TodoKinds == {"FixedLengthList", "Option", "Result", "List", "Future",
              "Stream", "Flags", "Tuple", "Resource", "Handle", "Map",
              "Unknown"}

Field(n, t) == [name |-> n, ty |-> t]
Case(n, t) == [name |-> n, ty |-> t]
TypeDef(n, k) == [name |-> n, kind |-> k]

\* GoType values.
GoPrim(g) == [t |-> g, name |-> ""]
GoUser(n) == [t |-> "UserDefined", name |-> n]

(***************************************************************************)
(* Type resolver: resolve_type and resolve_wasm_type.                      *)
(***************************************************************************)
GoOfPrim(p) ==
    CASE p = "bool" -> GoPrim("bool")
      [] p = "u8" -> GoPrim("uint8") [] p = "u16" -> GoPrim("uint16")
      [] p = "u32" -> GoPrim("uint32") [] p = "u64" -> GoPrim("uint64")
      [] p = "s8" -> GoPrim("int8") [] p = "s16" -> GoPrim("int16")
      [] p = "s32" -> GoPrim("int32") [] p = "s64" -> GoPrim("int64")
      [] p = "f32" -> GoPrim("float32") [] p = "f64" -> GoPrim("float64")
      [] p = "char" -> GoPrim("rune")
      [] p = "string" -> GoPrim("string")

\* A Type::Id is dereferenced in the arena: a record, enum, variant or flags
\* resolves to the Go type named after it, an alias to what it aliases.
RECURSIVE resolve_type(_, _)
resolve_type(t, resolve) ==
    IF t.tag = "prim" THEN GoOfPrim(t.p)
    ELSE LET def == resolve.types[t.id]
         IN  IF def.kind.kind = "Type"
             THEN resolve_type(def.kind.ty, resolve)
             ELSE GoUser(public(def.name.v))

\* The Go text of a GoType.
FormatGoType(g) == IF g.t = "UserDefined" THEN g.name ELSE g.t

WasmTypes == {"I32", "I64", "F32", "F64", "Pointer", "PointerOrI64", "Length"}

resolve_wasm_type(wt) ==
    CASE wt \in {"I32", "Pointer", "Length"} -> GoPrim("uint32")
      [] wt \in {"I64", "PointerOrI64"} -> GoPrim("uint64")
      [] wt = "F32" -> GoPrim("float32")
      [] wt = "F64" -> GoPrim("float64")

(***************************************************************************)
(* impl From<&WasmType> for GoImport: the wazero value type of a core Wasm *)
(* type.                                                                   *)
(***************************************************************************)
WAZERO_API_VALUE_TYPE_I32 == "api.ValueTypeI32"
WAZERO_API_VALUE_TYPE_I64 == "api.ValueTypeI64"
WAZERO_API_VALUE_TYPE_F32 == "api.ValueTypeF32"
WAZERO_API_VALUE_TYPE_F64 == "api.ValueTypeF64"

\* GoImportFrom taking a pointer for a 64-bit value.
GoImportFrom_pointer_i64(typ) ==
    CASE typ = "I32" -> WAZERO_API_VALUE_TYPE_I32
      [] typ = "I64" -> WAZERO_API_VALUE_TYPE_I64
      [] typ = "F32" -> WAZERO_API_VALUE_TYPE_F32
      [] typ = "F64" -> WAZERO_API_VALUE_TYPE_F64
      [] typ = "Pointer" -> WAZERO_API_VALUE_TYPE_I64
      [] typ = "PointerOrI64" -> WAZERO_API_VALUE_TYPE_I64
      [] typ = "Length" -> WAZERO_API_VALUE_TYPE_I32

GoImportFrom(typ) ==
    CASE typ = "I32" -> WAZERO_API_VALUE_TYPE_I32
      [] typ = "I64" -> WAZERO_API_VALUE_TYPE_I64
      [] typ = "F32" -> WAZERO_API_VALUE_TYPE_F32
      [] typ = "F64" -> WAZERO_API_VALUE_TYPE_F64
      [] typ = "Pointer" -> WAZERO_API_VALUE_TYPE_I32
      [] typ = "PointerOrI64" -> WAZERO_API_VALUE_TYPE_I64
      [] typ = "Length" -> WAZERO_API_VALUE_TYPE_I32

(***************************************************************************)
(* ImportAnalyzer.  A Rust panic (expect, todo!, panic!) is the value      *)
(* Panic(msg); it aborts the whole analysis at the first place it occurs.  *)
(***************************************************************************)
Panic(msg) == [r |-> "panic", msg |-> msg]
Ok(v) == [r |-> "ok", v |-> v]
Skip == [r |-> "none"]

\* The first panic among the results rs, in order; Skip when there is none.
RECURSIVE FirstPanic(_)
FirstPanic(rs) ==
    IF rs = <<>> THEN Skip
    ELSE IF Head(rs).r = "panic" THEN Head(rs)
    ELSE FirstPanic(Tail(rs))

\* The values of the Ok results of rs, in order (filter_map).
RECURSIVE Collect(_)
Collect(rs) ==
    IF rs = <<>> THEN <<>>
    ELSE IF Head(rs).r = "ok" THEN <<Head(rs).v>> \o Collect(Tail(rs))
    ELSE Collect(Tail(rs))

\* record_definition minting private field names.
record_definition_private(resolve, record) ==
    [d |-> "Record",
     fields |-> [i \in 1..Len(record.fields) |->
                   <<private(record.fields[i].name),
                     resolve_type(record.fields[i].ty, resolve)>>]]

\* The TypeDefKind::Record arm of analyze_type_definition.
record_definition(resolve, record) ==
    [d |-> "Record",
     fields |-> [i \in 1..Len(record.fields) |->
                   <<public(record.fields[i].name),
                     resolve_type(record.fields[i].ty, resolve)>>]]

\* alias_definition without the skip of Type::Id: the alias to the named type.
alias_definition_no_skip(resolve, ty) ==
    IF ty.tag = "id"
    THEN Ok([d |-> "Alias", target |-> resolve_type(ty, resolve)])
    ELSE IF ty.p = "string"
         THEN Ok([d |-> "Alias", target |-> GoPrim("string")])
         ELSE Panic("not yet implemented: generate type alias")

\* alias_definition with every placeholder arm filled in like the string arm.
alias_definition_all_primitives(resolve, ty) ==
    IF ty.tag = "id" THEN Skip
    ELSE Ok([d |-> "Alias", target |-> resolve_type(ty, resolve)])

\* The TypeDefKind::Type arms of analyze_type_definition.
alias_definition(resolve, ty) ==
    IF ty.tag = "id" THEN Skip
    ELSE IF ty.p = "string"
         THEN Ok([d |-> "Alias", target |-> GoPrim("string")])
         ELSE Panic("not yet implemented: generate type alias")

\* analyze_type_definition passing over the kinds it does not implement.
analyze_type_definition_skip_todo(resolve, kind) ==
    CASE kind.kind = "Record" -> Ok(record_definition(resolve, kind))
      [] kind.kind = "Enum" ->
           Ok([d |-> "Enum",
               cases |-> [i \in 1..Len(kind.cases) |-> kind.cases[i].name]])
      [] kind.kind = "Variant" ->
           Ok([d |-> "Variant",
               cases |-> [i \in 1..Len(kind.cases) |->
                            <<kind.cases[i].name,
                              IF kind.cases[i].ty.some
                              THEN Some(resolve_type(kind.cases[i].ty.v, resolve))
                              ELSE None>>]])
      [] kind.kind = "Type" -> alias_definition(resolve, kind.ty)
      [] kind.kind \in TodoKinds -> Skip

analyze_type_definition(resolve, kind) ==
    CASE kind.kind = "Record" -> Ok(record_definition(resolve, kind))
      [] kind.kind = "Enum" ->
           Ok([d |-> "Enum",
               cases |-> [i \in 1..Len(kind.cases) |-> kind.cases[i].name]])
      [] kind.kind = "Variant" ->
           Ok([d |-> "Variant",
               cases |-> [i \in 1..Len(kind.cases) |->
                            <<kind.cases[i].name,
                              IF kind.cases[i].ty.some
                              THEN Some(resolve_type(kind.cases[i].ty.v, resolve))
                              ELSE None>>]])
      [] kind.kind = "Type" -> alias_definition(resolve, kind.ty)
      [] kind.kind \in TodoKinds ->
           Panic("not yet implemented: generate type definition")

analyze_type(resolve, type_id) ==
    LET type_def == resolve.types[type_id]
    IN  IF ~type_def.name.some THEN Panic("type missing name")
        ELSE LET type_name == type_def.name.v
                 go_type_name == public(type_name)
                 definition == analyze_type_definition(resolve, type_def.kind)
             IN  IF definition.r = "ok"
                 THEN Ok([name |-> type_name,
                          go_type_name |-> go_type_name,
                          definition |-> definition.v])
                 ELSE definition

\* Parameters collected from the last parameter to the first.
Parameters_reversed(resolve, func) ==
    [i \in 1..Len(func.params) |->
        LET p == func.params[Len(func.params) - i + 1]
        IN  [name |-> private(p.name),
             go_type |-> resolve_type(p.ty, resolve),
             wit_type |-> p.ty]]

Parameters(resolve, func) ==
    [i \in 1..Len(func.params) |->
        [name |-> private(func.params[i].name),
         go_type |-> resolve_type(func.params[i].ty, resolve),
         wit_type |-> func.params[i].ty]]

analyze_interface_method(resolve, func) ==
    [name |-> func.name,
     go_method_name |-> public(func.name),
     parameters |-> Parameters(resolve, func),
     return_type |-> IF func.result.some
                     THEN Some([go_type |-> resolve_type(func.result.v, resolve),
                                wit_type |-> func.result.v])
                     ELSE None,
     wit_function |-> func]

analyze_function(resolve, func) ==
    [name |-> func.name,
     go_name |-> public(func.name),
     parameters |-> Parameters(resolve, func),
     return_type |-> IF func.result.some
                     THEN Some(resolve_type(func.result.v, resolve))
                     ELSE None]

\* ModuleName without the namespace of the package.
ModuleName_no_namespace(resolve, interface) ==
    IF interface.package.some
    THEN KebabPieces(resolve.packages[interface.package.v].name) \o <<"/">>
           \o KebabPieces(interface.name.v)
    ELSE KebabPieces(interface.name.v)

\* A String is kept as the sequence of its pieces; Concat gives its text.
ModuleName(resolve, interface) ==
    IF interface.package.some
    THEN LET package == resolve.packages[interface.package.v]
         IN  KebabPieces(package.namespace) \o <<":">>
               \o KebabPieces(package.name) \o <<"/">>
               \o KebabPieces(interface.name.v)
    ELSE KebabPieces(interface.name.v)

\* analyze_interface taking the empty name for an interface without one.
analyze_interface_unnamed(resolve, world, interface_id) ==
    LET interface == resolve.interfaces[interface_id]
        interface_name == IF interface.name.some THEN interface.name.v ELSE <<>>
        methods == [i \in 1..Len(interface.functions) |->
                      analyze_interface_method(resolve, interface.functions[i])]
        types == [i \in 1..Len(interface.types) |->
                      analyze_type(resolve, interface.types[i])]
    IN  IF FirstPanic(types).r = "panic" THEN FirstPanic(types)
        ELSE Ok([name |-> interface_name,
                 methods |-> methods,
                 types |-> Collect(types),
                 constructor_param_name |-> private(interface_name),
                 go_interface_name |->
                     public(<<"i">> \o world.name \o interface_name),
                 wazero_module_name |-> KebabPieces(interface_name)])

analyze_interface(resolve, world, interface_id) ==
    LET interface == resolve.interfaces[interface_id]
    IN  IF ~interface.name.some THEN Panic("interface missing name")
        ELSE
        LET interface_name == interface.name.v
            methods == [i \in 1..Len(interface.functions) |->
                          analyze_interface_method(resolve, interface.functions[i])]
            types == [i \in 1..Len(interface.types) |->
                          analyze_type(resolve, interface.types[i])]
        IN  IF FirstPanic(types).r = "panic" THEN FirstPanic(types)
            ELSE Ok([name |-> interface_name,
                     methods |-> methods,
                     types |-> Collect(types),
                     constructor_param_name |-> private(interface_name),
                     go_interface_name |->
                         public(<<"i">> \o world.name \o interface_name),
                     wazero_module_name |-> ModuleName(resolve, interface)])

\* analyze_loop inserting each interface at the front of its list.
RECURSIVE analyze_loop_front(_, _, _, _)
analyze_loop_front(resolve, world, i, acc) ==
    IF i > Len(world.imports) THEN Ok(acc)
    ELSE
    LET world_item == world.imports[i]
    IN  CASE world_item.item = "Interface" ->
               LET a == analyze_interface(resolve, world, world_item.id)
               IN  IF a.r = "panic" THEN a
                   ELSE analyze_loop_front(resolve, world, i + 1,
                          [acc EXCEPT !.interfaces = <<a.v>> \o @])
          [] world_item.item = "Type" ->
               LET t == analyze_type(resolve, world_item.id)
               IN  IF t.r = "panic" THEN t
                   ELSE IF t.r = "ok"
                   THEN analyze_loop_front(resolve, world, i + 1,
                          [acc EXCEPT !.standalone_types = Append(@, t.v)])
                   ELSE analyze_loop_front(resolve, world, i + 1, acc)
          [] world_item.item = "Function" ->
               analyze_loop_front(resolve, world, i + 1,
                   [acc EXCEPT !.standalone_functions =
                        Append(@, analyze_function(resolve, world_item.func.v))])

\* analyze_loop pushing an imported function onto no list.
RECURSIVE analyze_loop_no_functions(_, _, _, _)
analyze_loop_no_functions(resolve, world, i, acc) ==
    IF i > Len(world.imports) THEN Ok(acc)
    ELSE
    LET world_item == world.imports[i]
    IN  CASE world_item.item = "Interface" ->
               LET a == analyze_interface(resolve, world, world_item.id)
               IN  IF a.r = "panic" THEN a
                   ELSE analyze_loop_no_functions(resolve, world, i + 1,
                          [acc EXCEPT !.interfaces = Append(@, a.v)])
          [] world_item.item = "Type" ->
               LET t == analyze_type(resolve, world_item.id)
               IN  IF t.r = "panic" THEN t
                   ELSE IF t.r = "ok"
                   THEN analyze_loop_no_functions(resolve, world, i + 1,
                          [acc EXCEPT !.standalone_types = Append(@, t.v)])
                   ELSE analyze_loop_no_functions(resolve, world, i + 1, acc)
          [] world_item.item = "Function" ->
               analyze_loop_no_functions(resolve, world, i + 1, acc)

\* The loop of analyze over world.imports[i..], pushing onto the three lists.
RECURSIVE analyze_loop(_, _, _, _)
analyze_loop(resolve, world, i, acc) ==
    IF i > Len(world.imports) THEN Ok(acc)
    ELSE
    LET world_item == world.imports[i]
    IN  CASE world_item.item = "Interface" ->
               LET a == analyze_interface(resolve, world, world_item.id)
               IN  IF a.r = "panic" THEN a
                   ELSE analyze_loop(resolve, world, i + 1,
                          [acc EXCEPT !.interfaces = Append(@, a.v)])
          [] world_item.item = "Type" ->
               LET t == analyze_type(resolve, world_item.id)
               IN  IF t.r = "panic" THEN t
                   ELSE IF t.r = "ok"
                   THEN analyze_loop(resolve, world, i + 1,
                          [acc EXCEPT !.standalone_types = Append(@, t.v)])
                   ELSE analyze_loop(resolve, world, i + 1, acc)
          [] world_item.item = "Function" ->
               analyze_loop(resolve, world, i + 1,
                   [acc EXCEPT !.standalone_functions =
                        Append(@, analyze_function(resolve, world_item.func.v))])

\* analyze naming the constructor without its prefix.
analyze_constructor_unprefixed(resolve, world) ==
    LET lists == analyze_loop(resolve, world, 1,
                    [interfaces |-> <<>>, standalone_types |-> <<>>,
                     standalone_functions |-> <<>>])
    IN  IF lists.r = "panic" THEN lists
        ELSE Ok([interfaces |-> lists.v.interfaces,
                 standalone_types |-> lists.v.standalone_types,
                 standalone_functions |-> lists.v.standalone_functions,
                 factory_name |-> public(world.name \o <<"factory">>),
                 instance_name |-> public(world.name \o <<"instance">>),
                 constructor_name |-> public(world.name \o <<"factory">>)])

analyze(resolve, world) ==
    LET lists == analyze_loop(resolve, world, 1,
                    [interfaces |-> <<>>, standalone_types |-> <<>>,
                     standalone_functions |-> <<>>])
    IN  IF lists.r = "panic" THEN lists
        ELSE Ok([interfaces |-> lists.v.interfaces,
                 standalone_types |-> lists.v.standalone_types,
                 standalone_functions |-> lists.v.standalone_functions,
                 factory_name |-> public(world.name \o <<"factory">>),
                 instance_name |-> public(world.name \o <<"instance">>),
                 constructor_name |->
                     public(<<"new">> \o world.name \o <<"factory">>)])

(***************************************************************************)
(* Byte order of strings (the key order of a BTreeMap<String, _>).         *)
(***************************************************************************)
\* The bytes of the pieces that occur in wazero module names.
Bytes(piece) ==
    CASE piece = "-" -> <<45>> [] piece = "/" -> <<47>> [] piece = ":" -> <<58>>
      [] piece = "a" -> <<97>> [] piece = "b" -> <<98>>
      [] piece = "bar" -> <<98, 97, 114>>
      [] piece = "foo" -> <<102, 111, 111>>
      [] piece = "host" -> <<104, 111, 115, 116>>
      [] piece = "log" -> <<108, 111, 103>>
      [] piece = "logger" -> <<108, 111, 103, 103, 101, 114>>
      [] piece = "my" -> <<109, 121>>
      [] piece = "pkg" -> <<112, 107, 103>>
      [] piece = "shape" -> <<115, 104, 97, 112, 101>>
      [] piece = "test" -> <<116, 101, 115, 116>>
      [] piece = "types" -> <<116, 121, 112, 101, 115>>

StrBytes(pieces) == Flatten([i \in 1..Len(pieces) |-> Bytes(pieces[i])])

\* Lexicographic order of byte sequences.
RECURSIVE BytesLess(_, _)
BytesLess(x, y) ==
    IF y = <<>> THEN FALSE
    ELSE IF x = <<>> THEN TRUE
    ELSE IF Head(x) # Head(y) THEN Head(x) < Head(y)
    ELSE BytesLess(Tail(x), Tail(y))

StrLess(k1, k2) == BytesLess(StrBytes(k1), StrBytes(k2))
StrEq(k1, k2) == StrBytes(k1) = StrBytes(k2)

\* BTreeMap::insert on a map kept as its entries in key order: the value of
\* an existing key is replaced, a new key is placed in order.
RECURSIVE BTreeInsert(_, _, _)
BTreeInsert(map, key, value) ==
    IF map = <<>> THEN <<[key |-> key, value |-> value]>>
    ELSE IF StrEq(Head(map).key, key)
         THEN <<[key |-> Head(map).key, value |-> value]>> \o Tail(map)
    ELSE IF StrLess(key, Head(map).key)
         THEN <<[key |-> key, value |-> value]>> \o map
    ELSE <<Head(map)>> \o BTreeInsert(Tail(map), key, value)

(***************************************************************************)
(* Canonical ABI signature: Resolve::wasm_signature for GuestImport.       *)
(***************************************************************************)
MAX_FLAT_PARAMS == 16
MAX_FLAT_RESULTS == 1

\* The core Wasm types a WIT type flattens to.
RECURSIVE push_flat(_, _)
push_flat(resolve, t) ==
    IF t.tag = "prim"
    THEN CASE t.p \in {"bool", "u8", "u16", "u32", "s8", "s16", "s32", "char"}
                -> <<"I32">>
           [] t.p \in {"u64", "s64"} -> <<"I64">>
           [] t.p = "f32" -> <<"F32">>
           [] t.p = "f64" -> <<"F64">>
           [] t.p = "string" -> <<"Pointer", "Length">>
    ELSE LET kind == resolve.types[t.id].kind
         IN  CASE kind.kind = "Type" -> push_flat(resolve, kind.ty)
               [] kind.kind = "Enum" -> <<"I32">>
               [] kind.kind = "Record" ->
                    Flatten([i \in 1..Len(kind.fields) |->
                                push_flat(resolve, kind.fields[i].ty)])

wasm_signature(resolve, func) ==
    LET flat == Flatten([i \in 1..Len(func.params) |->
                            push_flat(resolve, func.params[i].ty)])
        indirect_params == Len(flat) > MAX_FLAT_PARAMS
        params == IF indirect_params THEN <<"Pointer">> ELSE flat
        flat_results == IF func.result.some
                        THEN push_flat(resolve, func.result.v) ELSE <<>>
        retptr == Len(flat_results) > MAX_FLAT_RESULTS
    IN  [params |-> IF retptr THEN Append(params, "Pointer") ELSE params,
         results |-> IF retptr THEN <<>> ELSE flat_results,
         indirect_params |-> indirect_params,
         retptr |-> retptr]

(***************************************************************************)
(* The Canonical ABI walker (wit_bindgen_core::abi::call) for              *)
(* LiftArgsLowerResults: the instructions it hands to the visitor.         *)
(***************************************************************************)
Ins(op, n) == [op |-> op, n |-> n]

\* The primitive a type stands for once aliases are followed; "enum" for an
\* enum.
RECURSIVE Shape(_, _)
Shape(resolve, t) ==
    IF t.tag = "prim" THEN t.p
    ELSE LET kind == resolve.types[t.id].kind
         IN  IF kind.kind = "Type" THEN Shape(resolve, kind.ty) ELSE "enum"

lift(resolve, t) ==
    LET p == Shape(resolve, t)
    IN  CASE p = "bool" -> <<Ins("BoolFromI32", 0)>>
          [] p = "u32" -> <<Ins("U32FromI32", 0)>>
          [] p = "s32" -> <<Ins("S32FromI32", 0)>>
          [] p = "u64" -> <<Ins("U64FromI64", 0)>>
          [] p = "f32" -> <<Ins("F32FromCoreF32", 0)>>
          [] p = "f64" -> <<Ins("F64FromCoreF64", 0)>>
          [] p = "char" -> <<Ins("CharFromI32", 0)>>
          [] p = "string" -> <<Ins("StringLift", 0)>>
          [] p = "enum" -> <<Ins("EnumLift", t.id)>>

lower(resolve, t) ==
    LET p == Shape(resolve, t)
    IN  CASE p = "bool" -> <<Ins("I32FromBool", 0)>>
          [] p = "u32" -> <<Ins("I32FromU32", 0)>>
          [] p = "s32" -> <<Ins("I32FromS32", 0)>>
          [] p = "u64" -> <<Ins("I64FromU64", 0)>>
          [] p = "f32" -> <<Ins("CoreF32FromF32", 0)>>
          [] p = "f64" -> <<Ins("CoreF64FromF64", 0)>>
          [] p = "char" -> <<Ins("I32FromChar", 0)>>
          [] p = "string" -> <<Ins("StringLower", 0)>>
          [] p = "enum" -> <<Ins("EnumLower", t.id)>>

\* GetArg for each flat value of the parameters from position i on, each
\* parameter followed by its lift; offset is the next argument index.
RECURSIVE lift_args(_, _, _, _)
lift_args(resolve, func, i, offset) ==
    IF i > Len(func.params) THEN <<>>
    ELSE LET n == Len(push_flat(resolve, func.params[i].ty))
         IN  [k \in 1..n |-> Ins("GetArg", offset + k - 1)]
               \o lift(resolve, func.params[i].ty)
               \o lift_args(resolve, func, i + 1, offset + n)

abi_call(resolve, func) ==
    LET sig == wasm_signature(resolve, func)
    IN  lift_args(resolve, func, 1, 0)
          \o <<Ins("CallInterface", Len(func.params))>>
          \o (IF ~func.result.some THEN <<>>
              ELSE IF ~sig.retptr THEN lower(resolve, func.result.v)
              ELSE lower(resolve, func.result.v)
                     \o <<Ins("GetArg", Len(sig.params) - 1),
                          Ins("LengthStore", 4), Ins("PointerStore", 0)>>)
          \o <<Ins("Return", Len(sig.results))>>

(***************************************************************************)
(* Func: the visitor.  It keeps the arguments it was asked for, the        *)
(* statements emitted so far, the operand stack and a counter for fresh    *)
(* names.  direction is "import" (Func::import) or "export".               *)
(***************************************************************************)
NewFunc(direction, param_name, result) ==
    [direction |-> direction, param_name |-> param_name, result |-> result,
     args |-> <<>>, body |-> <<>>, stack |-> <<>>, tmp |-> 0]

Push == "<push>"
Line == "<line>"

Tmp(prefix, f) == prefix \o ToString(f.tmp)

\* Step putting the statement before those emitted so far.
Step_statement_first(f, n, stmt, new) ==
    [f EXCEPT !.body = stmt \o (IF stmt = <<>> THEN <<>> ELSE <<Push>>) \o @,
              !.stack = SubSeq(@, 1, Len(@) - n) \o new,
              !.tmp = @ + 1]

\* Replace the top n operands of the stack by the operands new, after
\* emitting the statement stmt.
Step(f, n, stmt, new) ==
    [f EXCEPT !.body = @ \o stmt \o (IF stmt = <<>> THEN <<>> ELSE <<Push>>),
              !.stack = SubSeq(@, 1, Len(@) - n) \o new,
              !.tmp = @ + 1]

\* The top operand, and the one below it.
Top(f) == f.stack[Len(f.stack)]
Below(f) == f.stack[Len(f.stack) - 1]

\* A primitive conversion: an identity cast on the import path, the
\* runtime's value-slot helper on the export path.
Convert(f, cast, helper) ==
    LET r == Tmp("result", f)
    IN  Step(f, 1,
             <<r, ":=", IF f.direction = "import" THEN cast ELSE helper,
               "(", Top(f), ")">>,
             <<r>>)

emit(f, resolve, func, ins) ==
    CASE ins.op = "GetArg" ->
           LET arg == "arg" \o ToString(ins.n)
           IN  [f EXCEPT !.args = IF arg \in Range(@) THEN @ ELSE Append(@, arg),
                         !.stack = Append(@, arg)]
      [] ins.op = "U32FromI32" -> Convert(f, "uint32", "api.DecodeU32")
      [] ins.op = "I32FromU32" -> Convert(f, "uint32", "api.EncodeU32")
      [] ins.op = "S32FromI32" -> Convert(f, "int32", "api.DecodeI32")
      [] ins.op = "I32FromS32" -> Convert(f, "uint32", "api.EncodeI32")
      [] ins.op = "U64FromI64" -> Convert(f, "uint64", "uint64")
      [] ins.op = "I64FromU64" -> Convert(f, "uint64", "uint64")
      [] ins.op = "F32FromCoreF32" -> Convert(f, "float32", "api.DecodeF32")
      [] ins.op = "CoreF32FromF32" -> Convert(f, "float32", "api.EncodeF32")
      [] ins.op = "F64FromCoreF64" -> Convert(f, "float64", "api.DecodeF64")
      [] ins.op = "CoreF64FromF64" -> Convert(f, "float64", "api.EncodeF64")
      [] ins.op = "CharFromI32" -> Convert(f, "rune", "rune")
      [] ins.op = "I32FromChar" -> Convert(f, "uint32", "api.EncodeU32")
      [] ins.op = "BoolFromI32" ->
           LET v == Tmp("value", f)
           IN  Step(f, 1, <<v, ":=", Top(f), "!=", "0">>, <<v>>)
      [] ins.op = "I32FromBool" ->
           LET r == Tmp("result", f)
           IN  Step(f, 1,
                    <<"var", r, "uint32", Push,
                      "if", Top(f), "{", r, "=", "1", "}",
                      "else", "{", r, "=", "0", "}">>,
                    <<r>>)
      [] ins.op = "EnumLift" ->
           LET e == Tmp("enum", f)
           IN  Step(f, 1,
                    <<e, ":=", public(resolve.types[ins.n].name.v),
                      "(", Top(f), ")">>,
                    <<e>>)
      [] ins.op = "EnumLower" ->
           LET r == Tmp("result", f)
           IN  Step(f, 1, <<r, ":=", "uint32", "(", Top(f), ")">>, <<r>>)
      [] ins.op = "StringLift" ->
           LET buf == Tmp("buf", f)
               ok == Tmp("ok", f)
               str == Tmp("str", f)
           IN  Step(f, 2,
                    <<buf, ",", ok, ":=", "mod.Memory().Read",
                      "(", Below(f), ",", Top(f), ")", Push,
                      "if", "!", ok, "{", "panic", "(",
                      "errors.New", "(", "\"failed to read bytes from memory\"",
                      ")", ")", "}", Push,
                      str, ":=", "string", "(", buf, ")">>,
                    <<str>>)
      [] ins.op = "StringLower" ->
           LET ptr == Tmp("ptr", f)
               len == Tmp("len", f)
               err == Tmp("err", f)
           IN  Step(f, 1,
                    <<ptr, ",", len, ",", err, ":=", "writeString",
                      "(", "ctx", ",", Top(f), ",", "memory", ",", "realloc", ")",
                      Push,
                      "if", err, "!=", "nil", "{", "panic", "(", err, ")", "}">>,
                    <<ptr, len>>)
      [] ins.op = "LengthStore" ->
           \* stack: ptr, len, address
           Step(f, 0,
                <<"mod.Memory().WriteUint32Le", "(", Top(f), "+",
                  ToString(ins.n), ",", "uint32", "(", Below(f), ")", ")">>,
                <<>>)
      [] ins.op = "PointerStore" ->
           Step(f, 3,
                <<"mod.Memory().WriteUint32Le", "(", Top(f), "+",
                  ToString(ins.n), ",", "uint32", "(",
                  f.stack[Len(f.stack) - 2], ")", ")">>,
                <<>>)
      [] ins.op = "CallInterface" ->
           LET v == Tmp("value", f)
               ops == SubSeq(f.stack, Len(f.stack) - ins.n + 1, Len(f.stack))
               call == <<f.param_name, ".", public(func.name), "(", "ctx">>
                         \o Flatten([i \in 1..Len(ops) |-> <<",", ops[i]>>])
                         \o <<")">>
           IN  IF func.result.some
               THEN Step(f, ins.n, <<v, ":=">> \o call, <<v>>)
               ELSE Step(f, ins.n, call, <<>>)
      [] ins.op = "Return" ->
           IF ins.n = 0 THEN Step(f, 0, <<>>, <<>>)
           ELSE Step(f, 1, <<"return", Top(f)>>, <<>>)

\* The visitor driven over a whole instruction stream.
RECURSIVE visit(_, _, _, _)
visit(f, resolve, func, instructions) ==
    IF instructions = <<>> THEN f
    ELSE visit(emit(f, resolve, func, Head(instructions)), resolve, func,
               Tail(instructions))

\* GoResult: Empty formats to nothing, Anon(t) to the type.
GoResultEmpty == [anon |-> FALSE]
GoResultAnon(t) == [anon |-> TRUE, t |-> t]
FormatGoResult(r) == IF r.anon THEN <<FormatGoType(r.t)>> ELSE <<>>

(***************************************************************************)
(* ImportCodeGenerator.                                                    *)
(***************************************************************************)
quoted(text) == "\"" \o text \o "\""

CONTEXT_CONTEXT == "context.Context"
WAZERO_API_MODULE == "api.Module"

\* wasm_result that takes the first of several results.
wasm_result_first(wasm_sig) ==
    IF wasm_sig.results = <<>> THEN Ok(GoResultEmpty)
    ELSE Ok(GoResultAnon(resolve_wasm_type(wasm_sig.results[1])))

\* wasm_result that declares no result whatever the signature returns.
wasm_result_empty(wasm_sig) ==
    IF Len(wasm_sig.results) <= 1 THEN Ok(GoResultEmpty)
    ELSE Panic("not yet implemented: implement handling of wasm signatures with multiple results")

\* The Go result of the host function, from the results of the signature.
wasm_result(wasm_sig) ==
    IF wasm_sig.results = <<>> THEN Ok(GoResultEmpty)
    ELSE IF Len(wasm_sig.results) = 1
         THEN Ok(GoResultAnon(resolve_wasm_type(wasm_sig.results[1])))
    ELSE Panic("not yet implemented: implement handling of wasm signatures with multiple results")

\* import_func building the visitor of the export path.
import_func_export(param_name, result) == NewFunc("export", param_name, result)

\* Func::import(param_name, result, sizes)
import_func(param_name, result) == NewFunc("import", param_name, result)

\* all_params that skips the first argument of the visitor.
all_params_skip_first(f) ==
    <<<<"ctx", CONTEXT_CONTEXT>>, <<"mod", WAZERO_API_MODULE>>>>
      \o [i \in 1..(Len(f.args) - 1) |-> <<f.args[i + 1], "uint32">>]

\* The parameters of the host function: ctx, mod, then the arguments the
\* visitor collected.
all_params(f) ==
    <<<<"ctx", CONTEXT_CONTEXT>>, <<"mod", WAZERO_API_MODULE>>>>
      \o [i \in 1..Len(f.args) |-> <<f.args[i], "uint32">>]

\* join_params with the comma between the two fixed parameters and the
\* arguments written out, whether or not there are arguments.
join_params_fixed_comma(params) ==
    Join(SubSeq(params, 1, 2), <<",", Push>>) \o <<",", Push>>
      \o Join(SubSeq(params, 3, Len(params)), <<",", Push>>) \o <<",">>

\* `$(for param in all_params join (,$['\r']) => $param),`
join_params(params) == Join(params, <<",", Push>>) \o <<",">>

\* The body of generate_host_function_builder, given the signature the
\* resolver reported for the function.
host_function_builder(resolve, wasm_sig, method, param_name) ==
    LET result == wasm_result(wasm_sig)
    IN
    IF result.r = "panic" THEN result
    ELSE
    LET f == visit(import_func(param_name, result.v), resolve,
                   method.wit_function, abi_call(resolve, method.wit_function))
    IN  Ok(<<"NewFunctionBuilder", "(", ")", ".", Push,
             "WithFunc", "(", "func", "(", Push>>
           \o join_params(all_params(f)) \o <<Push, ")">>
           \o FormatGoResult(f.result) \o <<"{", Push>>
           \o f.body
           \o <<"}", ")", ".", Push,
                "Export", "(", quoted(Kebab(method.name)), ")", ".">>)

generate_host_function_builder(resolve, method, param_name) ==
    host_function_builder(resolve, wasm_signature(resolve, method.wit_function),
                          method, param_name)

\* chain_methods walking the methods from the last to the first.
RECURSIVE chain_methods_reversed(_, _, _, _)
chain_methods_reversed(resolve, interface, j, chain) ==
    IF j > Len(interface.methods) THEN Ok(chain)
    ELSE LET func_builder ==
                 generate_host_function_builder(resolve,
                     interface.methods[Len(interface.methods) - j + 1],
                     interface.constructor_param_name)
         IN  IF func_builder.r = "panic" THEN func_builder
             ELSE chain_methods_reversed(resolve, interface, j + 1,
                                         chain \o <<Push>> \o func_builder.v)

\* The builders of the methods of one interface from position j on, appended
\* to chain; the first panic aborts.
RECURSIVE chain_methods(_, _, _, _)
chain_methods(resolve, interface, j, chain) ==
    IF j > Len(interface.methods) THEN Ok(chain)
    ELSE LET func_builder ==
                 generate_host_function_builder(resolve, interface.methods[j],
                     interface.constructor_param_name)
         IN  IF func_builder.r = "panic" THEN func_builder
             ELSE chain_methods(resolve, interface, j + 1,
                                chain \o <<Push>> \o func_builder.v)

\* The loop of import_chains over analyzed.interfaces[n..]; i = n - 1 is the
\* index enumerate() gives.
RECURSIVE import_chains_loop(_, _, _, _)
import_chains_loop(resolve, analyzed, n, chains) ==
    IF n > Len(analyzed.interfaces) THEN Ok(chains)
    ELSE
    LET interface == analyzed.interfaces[n]
        err == private(<<"err" \o ToString(n - 1)>>)
        start == <<"_", ",", err, ":=", "wazeroRuntime.NewHostModuleBuilder",
                   "(", quoted(Concat(interface.wazero_module_name)), ")", ".">>
        chain == chain_methods(resolve, interface, 1, start)
    IN  IF chain.r = "panic" THEN chain
        ELSE import_chains_loop(resolve, analyzed, n + 1,
               BTreeInsert(chains, interface.wazero_module_name,
                   chain.v \o <<Push, "Instantiate", "(", "ctx", ")", Push,
                                "if", err, "!=", "nil", "{", Push,
                                "return", "nil", ",", err, Push, "}">>))

import_chains(resolve, analyzed) ==
    import_chains_loop(resolve, analyzed, 1, <<>>)

\* generate_method_signature with ctx after the parameters of the method.
generate_method_signature_ctx_last(method) ==
    LET return_type == IF method.return_type.some
                       THEN GoResultAnon(method.return_type.v.go_type)
                       ELSE GoResultEmpty
    IN  <<method.go_method_name, "(", Push>>
          \o Join([i \in 1..Len(method.parameters) |->
                     <<method.parameters[i].name,
                       FormatGoType(method.parameters[i].go_type), ",">>],
                  <<Push>>)
          \o <<Push, "ctx", CONTEXT_CONTEXT, ",", Push, ")">>
          \o FormatGoResult(return_type)

generate_method_signature(method) ==
    LET return_type == IF method.return_type.some
                       THEN GoResultAnon(method.return_type.v.go_type)
                       ELSE GoResultEmpty
    IN  <<method.go_method_name, "(", Push, "ctx", CONTEXT_CONTEXT, ",", Push>>
          \o Join([i \in 1..Len(method.parameters) |->
                     <<method.parameters[i].name,
                       FormatGoType(method.parameters[i].go_type), ",">>],
                  <<Push>>)
          \o <<Push, ")">> \o FormatGoResult(return_type)

generate_interface_type(interface) ==
    <<Line, "type", interface.go_interface_name, "interface", "{", Push>>
      \o Join([i \in 1..Len(interface.methods) |->
                 generate_method_signature(interface.methods[i])], <<Push>>)
      \o <<Push, "}">>

\* enum_constants with a const block of its own for every case.
enum_constants_block_each(cases, enum_type) ==
    Join([i \in 1..Len(cases) |->
            <<"const", "(", Push, public(cases[i]), enum_type, "=", "iota",
              Push, ")">>],
         <<Line>>)

\* The const block of an enum: one `Name type = iota` line per case.
enum_constants(cases, enum_type) ==
    <<"const", "(", Push>>
      \o Join([i \in 1..Len(cases) |->
                 <<public(cases[i]), enum_type, "=", "iota">>],
              <<Push>>)
      \o <<Push, ")">>

\* alias_declaration defining a new type instead of an alias.
alias_declaration_newtype(typ) ==
    <<Line, "type", typ.go_type_name, FormatGoType(typ.definition.target)>>

\* What is emitted for an alias: a Go type alias.
alias_declaration(typ) ==
    <<Line, "type", typ.go_type_name, "=", FormatGoType(typ.definition.target)>>

\* variant_stub declaring an empty Go interface for the variant.
variant_stub_declared(typ) ==
    <<Line, "type", typ.go_type_name, "interface", "{", "}">>

\* What is emitted for a variant: a comment, and no declaration.
variant_stub(typ) ==
    <<Line, "//", "Variant", "type:", Kebab(typ.name), "(TODO:", "implement)">>

generate_type_definition(typ) ==
    LET def == typ.definition
    IN  CASE def.d = "Record" ->
               <<Line, "type", typ.go_type_name, "struct", "{", Push>>
                 \o Join([i \in 1..Len(def.fields) |->
                            <<def.fields[i][1], FormatGoType(def.fields[i][2])>>],
                         <<Push>>)
                 \o <<Push, "}">>
          [] def.d = "Enum" ->
               LET enum_type == private(typ.name)
                   enum_interface == typ.go_type_name
                   enum_function == private(<<"is">> \o typ.name)
               IN  <<Line, "type", enum_interface, "interface", "{", Push,
                     enum_function, "(", ")", Push, "}",
                     Line, "type", enum_type, "int",
                     Line, "func", "(", enum_type, ")", enum_function,
                     "(", ")", "{", "}",
                     Line>>
                     \o enum_constants(def.cases, enum_type)
                     \o <<Line>>
          [] def.d = "Alias" -> alias_declaration(typ)
          [] def.d = "Primitive" ->
               <<Line, "//", "Primitive", "type:", Kebab(typ.name)>>
          [] def.d = "Variant" -> variant_stub(typ)

\* format_into emitting the types of all interfaces after the declarations
\* of all interfaces.
format_into_types_last(analyzed) ==
    Flatten([n \in 1..Len(analyzed.interfaces) |->
               generate_interface_type(analyzed.interfaces[n])])
      \o Flatten([n \in 1..Len(analyzed.interfaces) |->
               Flatten([k \in 1..Len(analyzed.interfaces[n].types) |->
                   generate_type_definition(analyzed.interfaces[n].types[k])])])
      \o Flatten([k \in 1..Len(analyzed.standalone_types) |->
                    generate_type_definition(analyzed.standalone_types[k])])

format_into(analyzed) ==
    Flatten([n \in 1..Len(analyzed.interfaces) |->
               generate_interface_type(analyzed.interfaces[n])
                 \o Flatten([k \in 1..Len(analyzed.interfaces[n].types) |->
                       generate_type_definition(analyzed.interfaces[n].types[k])])])
      \o Flatten([k \in 1..Len(analyzed.standalone_types) |->
                    generate_type_definition(analyzed.standalone_types[k])])

(***************************************************************************)
(* Inputs: a Resolve (the arenas of the external parser) and a World.      *)
(***************************************************************************)
Func(n, params, result) == [name |-> n, params |-> params, result |-> result]
Param(n, t) == [name |-> n, ty |-> t]
Interface(n, package, functions, types) ==
    [name |-> n, package |-> package, functions |-> functions, types |-> types]

ItemInterface(id) == [item |-> "Interface", id |-> id, func |-> None]
ItemType(id) == [item |-> "Type", id |-> id, func |-> None]
ItemFunction(f) == [item |-> "Function", id |-> 0, func |-> Some(f)]

\* The third package is a later version of the first.
Packages ==
    <<[namespace |-> <<"test">>, name |-> <<"pkg">>, version |-> None],
      [namespace |-> <<"foo">>, name |-> <<"bar">>, version |-> None],
      [namespace |-> <<"test">>, name |-> <<"pkg">>,
       version |-> Some(<<2, 0, 0>>)]>>

\* Arena ids of the types every explored Resolve holds.
FooId == 1
StatusId == 2
MyAliasId == 3
FooUseId == 4
ShapeId == 5
GenId == 8

FixtureTypes ==
    <<TypeDef(Some(<<"foo">>),
              Record(<<Field(<<"float32">>, Prim("f32")),
                       Field(<<"float64">>, Prim("f64")),
                       Field(<<"uint32">>, Prim("u32")),
                       Field(<<"uint64">>, Prim("u64")),
                       Field(<<"s">>, Prim("string"))>>)),
      TypeDef(Some(<<"status">>),
              Enum(<<Case(<<"ok">>, None), Case(<<"error">>, None)>>)),
      TypeDef(Some(<<"my", "alias">>), TypeOf(Prim("string"))),
      \* `use types.{foo}`: a type that only names another one
      TypeDef(Some(<<"foo">>), TypeOf(TId(FooId))),
      TypeDef(Some(<<"shape">>),
              Variant(<<Case(<<"a">>, None),
                        Case(<<"b">>, Some(Prim("u32")))>>)),
      TypeDef(Some(<<"x">>), TypeOf(Prim("u32"))),
      TypeDef(Some(<<"y">>), Other("List"))>>

LogFunc == Func(<<"log">>, <<Param(<<"message">>, Prim("string"))>>, None)
PingFunc == Func(<<"ping">>, <<>>, None)
IsOkFunc == Func(<<"is", "ok">>, <<Param(<<"s">>, Prim("string"))>>,
                 Some(Prim("bool")))

\* The Resolve whose last type is gen, and whose interface my-types holds
\* the functions and types given.
MakeResolve(gen, functions, types) ==
    [types |-> FixtureTypes \o <<gen>>,
     packages |-> Packages,
     interfaces |->
        <<Interface(Some(<<"logger">>), Some(1), <<LogFunc>>, <<>>),
          Interface(Some(<<"types">>), Some(1), <<>>,
                    <<FooId, StatusId, MyAliasId>>),
          Interface(Some(<<"host">>), None, <<IsOkFunc, PingFunc>>,
                    <<FooUseId, ShapeId>>),
          Interface(Some(<<"my", "types">>), Some(2), functions, types),
          Interface(Some(<<"logger">>), Some(3), <<LogFunc, PingFunc>>, <<>>)>>]

\* The same Resolve with the interface my-types declared inline in the world
\* (`import host: interface { ... }`): such an interface has no name.
MakeResolveInline(gen, functions, types) ==
    [MakeResolve(gen, functions, types) EXCEPT
        !.interfaces[4] = Interface(None, None, functions, types)]

GenIfaceId == 4
LoggerV2Id == 5

\* Sequences over S with 1 to n entries whose names are pairwise distinct.
NamedSeqs(S, n) ==
    {q \in UNION {[1..k -> S] : k \in 1..n} :
        \A i, j \in 1..Len(q) : q[i].name = q[j].name => i = j}

FieldSpace ==
    {Field(n, t) : n \in {<<"x">>, <<"float32">>, <<"my", "s">>},
                   t \in {Prim("u32"), Prim("f32"), Prim("string"),
                          TId(StatusId)}}

CaseSpace == {Case(n, None) : n \in {<<"ok">>, <<"error">>, <<"is", "ok">>}}

VariantCaseSpace ==
    {Case(n, t) : n \in {<<"a">>, <<"b">>},
                  t \in {None, Some(Prim("u32")), Some(TId(FooId))}}

\* The kinds of the generated type.
KindSpace ==
    {Record(fs) : fs \in NamedSeqs(FieldSpace, MaxFields)}
      \cup {Enum(cs) : cs \in NamedSeqs(CaseSpace, MaxCases)}
      \cup {Variant(cs) : cs \in NamedSeqs(VariantCaseSpace, MaxCases)}
      \cup {TypeOf(Prim(p)) : p \in Primitives}
      \cup {TypeOf(Prim("error-context"))}
      \cup {TypeOf(TId(FooId)), TypeOf(TId(StatusId))}
      \cup {Other(k) : k \in TodoKinds}

GenNames == {<<"bar">>, <<"my", "foo">>}

\* The kinds of a type without a name.  A type that names another one is
\* declared by `type` or `use` and has a name.
UnnamedKindSpace ==
    {Record(<<Field(<<"x">>, Prim("u32"))>>), TypeOf(Prim("string")),
     Other("List"), Other("Tuple")}

DefaultGen == TypeDef(Some(<<"bar">>), TypeOf(Prim("string")))

\* The types a generated function takes and returns.
FuncTypes == {Prim("bool"), Prim("u32"), Prim("s32"), Prim("u64"), Prim("f32"),
              Prim("f64"), Prim("char"), Prim("string"), TId(StatusId)}

ParamNames == <<<<"a">>, <<"b">>, <<"c">>, <<"x">>, <<"y">>, <<"z">>>>

FuncSpace ==
    {Func(<<"log">>, [i \in 1..Len(ts) |-> Param(ParamNames[i], ts[i])], r) :
        ts \in SeqUpTo(FuncTypes, MaxParams),
        r \in {None} \cup {Some(t) : t \in FuncTypes}}

\* The items a world over the fixed part of the Resolve may import.
ItemPool ==
    {ItemInterface(i) : i \in 1..3}
      \cup {ItemType(i) : i \in 1..Len(FixtureTypes)}
      \cup {ItemFunction(PingFunc), ItemFunction(IsOkFunc)}

WorldNames == {<<"test", "world">>, <<"foo">>}

\* The name a world item is imported under (the key of world.imports).
ItemName(it) ==
    CASE it.item = "Interface" -> <<"interface">> \o <<ToString(it.id)>>
      [] it.item = "Type" -> FixtureTypes[it.id].name.v
      [] it.item = "Function" -> it.func.v.name

World(n, imports) == [name |-> n, imports |-> imports]

\* No type is imported both on its own and through the interface that owns
\* it: the types interface owns foo, status and my-alias, and host owns the
\* `use` of foo and shape.
OwnedOnce(q) ==
    \A i, j \in 1..Len(q) :
        (q[i].item = "Interface" /\ q[j].item = "Type") =>
            /\ q[i].id = 2 => q[j].id \notin {FooId, StatusId, MyAliasId}
            /\ q[i].id = 3 => q[j].id \notin {FooUseId, ShapeId}

\* Worlds that import a type without a name, through its interface or on
\* its own, or an interface without a name, first or after another import.
UnnamedInputs ==
    {[resolve |-> MakeResolve(TypeDef(None, k), <<PingFunc>>, <<GenId>>),
      world |-> World(<<"test", "world">>, is)] :
        k \in UnnamedKindSpace,
        is \in {<<ItemInterface(GenIfaceId)>>, <<ItemType(GenId)>>,
                <<ItemType(StatusId), ItemType(GenId)>>}}
      \cup
    {[resolve |-> MakeResolveInline(DefaultGen, <<PingFunc>>, ts),
      world |-> World(<<"test", "world">>, is)] :
        ts \in {<<>>, <<GenId>>},
        is \in {<<ItemInterface(GenIfaceId)>>,
                <<ItemInterface(1), ItemInterface(GenIfaceId)>>,
                <<ItemInterface(GenIfaceId), ItemType(ShapeId)>>}}

\* Worlds that import the interface types and, from another package, the
\* interface of the generated type.
TwoInterfaceInputs ==
    {[resolve |-> MakeResolve(TypeDef(Some(tn), k), <<PingFunc>>, <<GenId>>),
      world |-> World(<<"test", "world">>,
                      <<ItemInterface(2), ItemInterface(GenIfaceId)>>)] :
        tn \in GenNames \cup {<<"foo">>, <<"status">>},
        k \in {Record(<<Field(<<"x">>, Prim("u32"))>>),
               Enum(<<Case(<<"ok">>, None)>>),
               Enum(<<Case(<<"is", "ok">>, None)>>),
               Enum(<<Case(<<"foo">>, None), Case(<<"bar">>, None)>>),
               TypeOf(Prim("string"))}}

\* Worlds that import the interface logger of two versions of its package.
VersionInputs ==
    {[resolve |-> MakeResolve(DefaultGen, <<>>, <<>>),
      world |-> World(<<"test", "world">>, is)] :
        is \in {<<ItemInterface(1), ItemInterface(LoggerV2Id)>>,
                <<ItemInterface(LoggerV2Id), ItemInterface(1)>>,
                <<ItemInterface(LoggerV2Id)>>}}

ComputeFunc ==
    Func(<<"compute">>,
         <<Param(<<"a">>, Prim("u32")), Param(<<"b">>, Prim("u32"))>>, None)

\* Worlds that import an interface of two functions: one that takes a
\* string, and compute, which takes two u32.
StringAndIntegerInputs ==
    {[resolve |-> MakeResolve(DefaultGen, <<f, ComputeFunc>>, <<>>),
      world |-> World(<<"test", "world">>, <<ItemInterface(GenIfaceId)>>)] :
        f \in {Func(<<"log">>, <<Param(<<"message">>, Prim("string"))>>, r) :
                  r \in {None, Some(Prim("string")), Some(Prim("u32"))}}}

\* The explored inputs: any world over the fixed arenas; a generated type,
\* imported through its interface or on its own; a generated function; the
\* worlds with unnamed imports, with two interfaces of types, with an
\* interface of a string function and an integer function, and with two
\* versions of an interface.
Inputs ==
    {[resolve |-> MakeResolve(DefaultGen, <<>>, <<>>), world |-> World(n, is)] :
        n \in WorldNames,
        is \in {q \in SeqUpTo(ItemPool, MaxImports) :
                   /\ NoDup([i \in 1..Len(q) |-> ItemName(q[i])])
                   /\ OwnedOnce(q)}}
      \cup
    {[resolve |-> MakeResolve(TypeDef(Some(tn), k), <<PingFunc>>,
                              <<GenId, FooUseId>>),
      world |-> World(<<"test", "world">>, is)] :
        tn \in GenNames, k \in KindSpace,
        is \in {<<ItemInterface(GenIfaceId)>>,
                <<ItemType(FooUseId), ItemType(GenId)>>}}
      \cup
    {[resolve |-> MakeResolve(DefaultGen, <<f, PingFunc>>, <<>>),
      world |-> World(<<"test", "world">>, <<ItemInterface(GenIfaceId)>>)] :
        f \in FuncSpace}
      \cup UnnamedInputs
      \cup TwoInterfaceInputs
      \cup StringAndIntegerInputs
      \cup VersionInputs

(***************************************************************************)
(* The generation pass as a state machine.                                 *)
(***************************************************************************)
VARIABLES
    resolve,    \* the Resolve handed to the analyzer and the generator
    world,      \* the World being generated
    analyzed,   \* what analyze() returned in this pass, NotRun before it
    output,     \* what format_into produced in this pass
    chains,     \* what import_chains returned in this pass
    built,      \* the calls of generate_host_function_builder in this pass
    previous,   \* the results of the pass before this one
    run,        \* the number of this pass
    wasm_types, \* the core Wasm types handed to GoImport::from
    value_types \* the wazero value types it returned for them

vars == <<resolve, world, analyzed, output, chains, built, previous, run,
          wasm_types, value_types>>

NotRun == [r |-> "notrun"]

\* The calls import_chains makes of generate_host_function_builder, with
\* what each returned, up to and including the first that panics.
RECURSIVE Calls(_, _, _, _)
Calls(res, an, n, j) ==
    IF n > Len(an.interfaces) THEN <<>>
    ELSE IF j > Len(an.interfaces[n].methods) THEN Calls(res, an, n + 1, 1)
    ELSE LET method == an.interfaces[n].methods[j]
             ret == generate_host_function_builder(res, method,
                        an.interfaces[n].constructor_param_name)
         IN  <<[method |-> method,
                sig |-> wasm_signature(res, method.wit_function),
                ret |-> ret]>>
               \o (IF ret.r = "panic" THEN <<>> ELSE Calls(res, an, n, j + 1))

Init ==
    /\ \E in \in Inputs : resolve = in.resolve /\ world = in.world
    /\ analyzed = NotRun
    /\ output = NotRun
    /\ chains = NotRun
    /\ built = <<>>
    /\ previous = NotRun
    /\ run = 1
    /\ wasm_types = <<>>
    /\ value_types = NotRun

\* ImportAnalyzer::new(resolve, world).analyze()
Analyze ==
    /\ analyzed = NotRun
    /\ analyzed' = analyze(resolve, world)
    /\ UNCHANGED <<wasm_types, value_types, resolve, world, output, chains, built, previous, run>>

\* ImportCodeGenerator::new(resolve, analyzed, sizes).format_into(tokens)
FormatInto ==
    /\ analyzed.r = "ok"
    /\ output = NotRun
    /\ output' = Ok(format_into(analyzed.v))
    /\ UNCHANGED <<wasm_types, value_types, resolve, world, analyzed, chains, built, previous, run>>

\* ImportChains returning the chains in an arbitrary order, as the
\* iteration of a hash map would.
ImportChainsUnordered ==
    /\ analyzed.r = "ok"
    /\ chains = NotRun
    /\ LET c == import_chains(resolve, analyzed.v)
       IN  IF c.r = "panic" THEN chains' = c
           ELSE \E perm \in Permutations(1..Len(c.v)) :
                   chains' = Ok([i \in 1..Len(c.v) |-> c.v[perm[i]]])
    /\ built' = Calls(resolve, analyzed.v, 1, 1)
    /\ UNCHANGED <<wasm_types, value_types, resolve, world, analyzed, output, previous, run>>

\* ImportCodeGenerator::new(resolve, analyzed, sizes).import_chains()
ImportChains ==
    /\ analyzed.r = "ok"
    /\ chains = NotRun
    /\ chains' = import_chains(resolve, analyzed.v)
    /\ built' = Calls(resolve, analyzed.v, 1, 1)
    /\ UNCHANGED <<wasm_types, value_types, resolve, world, analyzed, output, previous, run>>

\* The pass is over: analysis panicked, or both outputs were produced.
PassDone ==
    \/ analyzed.r = "panic"
    \/ analyzed.r = "ok" /\ output # NotRun /\ chains # NotRun

\* The generator is run again on the same input.
Rerun ==
    /\ PassDone
    /\ run < MaxRuns
    /\ previous' = [r |-> "ran", analyzed |-> analyzed, output |-> output,
                    chains |-> chains]
    /\ analyzed' = NotRun
    /\ output' = NotRun
    /\ chains' = NotRun
    /\ built' = <<>>
    /\ run' = run + 1
    /\ UNCHANGED <<wasm_types, value_types, resolve, world>>

\* The results a signature may report in place of real: real itself, or
\* several results.
ResultsSpace(real) ==
    {real} \cup UNION {[1..k -> {"I32", "I64", "F32", "F64"}] : k \in 2..MaxResults}

\* generate_host_function_builder called on one analyzed method, as the tests
\* call it, with a resolver whose wasm_signature is not held to the one flat
\* result of the Canonical ABI.
GenerateHostFunctionBuilder ==
    /\ analyzed.r = "ok"
    /\ built = <<>>
    /\ \E n \in 1..Len(analyzed.v.interfaces) :
          \E j \in 1..Len(analyzed.v.interfaces[n].methods) :
              LET method == analyzed.v.interfaces[n].methods[j]
                  real == wasm_signature(resolve, method.wit_function)
              IN  \E rs \in ResultsSpace(real.results) :
                      LET sig == [real EXCEPT !.results = rs]
                      IN  built' = <<[method |-> method, sig |-> sig,
                                      ret |-> host_function_builder(resolve, sig,
                                                method,
                                                analyzed.v.interfaces[n]
                                                    .constructor_param_name)]>>
    /\ UNCHANGED <<wasm_types, value_types, resolve, world, analyzed, output, chains, previous, run>>

Next == Analyze \/ FormatInto \/ ImportChains \/ Rerun

Spec == Init /\ [][Next]_vars

\* import_chains taking the interfaces out of the IR as it walks them.
ImportChainsAgain_draining ==
    /\ analyzed.r = "ok"
    /\ chains # NotRun
    /\ Len(built) <= MaxRuns * Len(Calls(resolve, analyzed.v, 1, 1))
    /\ chains' = import_chains(resolve, analyzed.v)
    /\ built' = built \o Calls(resolve, analyzed.v, 1, 1)
    /\ analyzed' = [analyzed EXCEPT !.v.interfaces = <<>>]
    /\ UNCHANGED <<wasm_types, value_types, resolve, world, output, previous, run>>

\* import_chains() called once more on a generator over the same
\* AnalyzedImports; it calls generate_host_function_builder for every
\* method again.
ImportChainsAgain ==
    /\ analyzed.r = "ok"
    /\ chains # NotRun
    /\ Len(built) <= MaxRuns * Len(Calls(resolve, analyzed.v, 1, 1))
    /\ chains' = import_chains(resolve, analyzed.v)
    /\ built' = built \o Calls(resolve, analyzed.v, 1, 1)
    /\ UNCHANGED <<wasm_types, value_types, resolve, world, analyzed, output, previous, run>>

NextSig == Analyze \/ GenerateHostFunctionBuilder

\* The generator over a resolver that may report any number of results.
SpecSig == Init /\ [][NextSig]_vars

\* The types of a Wasm signature, each to be given its wazero value type.
InitValueTypes ==
    /\ wasm_types \in SeqUpTo(WasmTypes, MaxTypes)
    /\ value_types = NotRun
    /\ resolve = MakeResolve(DefaultGen, <<>>, <<>>)
    /\ world = World(<<"test", "world">>, <<>>)
    /\ analyzed = NotRun
    /\ output = NotRun
    /\ chains = NotRun
    /\ built = <<>>
    /\ previous = NotRun
    /\ run = 1

\* GoImport::from(&typ) for each type of the signature.
ValueTypes ==
    /\ value_types = NotRun
    /\ value_types' = Ok([i \in 1..Len(wasm_types) |-> GoImportFrom(wasm_types[i])])
    /\ UNCHANGED <<wasm_types, resolve, world, analyzed, output, chains, built,
                   previous, run>>

NextValueTypes == ValueTypes

SpecValueTypes == InitValueTypes /\ [][NextValueTypes]_vars

NextRepeat ==
    Analyze \/ FormatInto \/ ImportChains \/ ImportChainsAgain
      \/ GenerateHostFunctionBuilder

\* One analysis, consumed by any number of calls of the generator.
SpecRepeat == Init /\ [][NextRepeat]_vars

(***************************************************************************)
(* The source of each part of the IR, for stating the properties.          *)
(***************************************************************************)
IsInterfaceItem(it) == it.item = "Interface"
IsTypeItem(it) == it.item = "Type"
IsFunctionItem(it) == it.item = "Function"

\* A type that only names another type: TypeDefKind::Type(Type::Id(_)).
IsIdAlias(id) ==
    resolve.types[id].kind.kind = "Type" /\ resolve.types[id].kind.ty.tag = "id"
NotIdAlias(id) == ~IsIdAlias(id)

\* The interfaces the world imports, in the order of world.imports.
ImportedInterfaces ==
    LET items == SelectSeq(world.imports, IsInterfaceItem)
    IN  [k \in 1..Len(items) |-> resolve.interfaces[items[k].id]]

\* The ids of the types the world imports directly, in order.
ImportedTypeIds ==
    LET items == SelectSeq(world.imports, IsTypeItem)
    IN  [k \in 1..Len(items) |-> items[k].id]

\* The functions the world imports directly, in order.
ImportedFunctions ==
    LET items == SelectSeq(world.imports, IsFunctionItem)
    IN  [k \in 1..Len(items) |-> items[k].func.v]

Names(s) == [i \in 1..Len(s) |-> s[i].name]
TypeNames(ids) == [i \in 1..Len(ids) |-> resolve.types[ids[i]].name.v]

\* Every list of analyzed types of the IR, paired with the ids of the
\* source types it was built from.
TypeLists ==
    {[ids |-> ImportedInterfaces[k].types,
      types |-> analyzed.v.interfaces[k].types] :
        k \in 1..Len(analyzed.v.interfaces)}
      \cup {[ids |-> ImportedTypeIds, types |-> analyzed.v.standalone_types]}

\* Some imported list of types holds a type that only names another type.
ImportsIdAlias ==
    \/ \E k \in 1..Len(ImportedInterfaces) :
          \E i \in 1..Len(ImportedInterfaces[k].types) :
              IsIdAlias(ImportedInterfaces[k].types[i])
    \/ \E i \in 1..Len(ImportedTypeIds) : IsIdAlias(ImportedTypeIds[i])

\* The tokens declare a type in terms of itself at position i:
\* `type Foo = Foo` or `type Foo Foo`.
SelfReferential(tokens, i) ==
    /\ tokens[i] = "type"
    /\ \/ i + 2 <= Len(tokens) /\ tokens[i + 1] = tokens[i + 2]
       \/ /\ i + 3 <= Len(tokens)
          /\ tokens[i + 2] = "="
          /\ tokens[i + 1] = tokens[i + 3]

(***************************************************************************)
(* C1.  A type whose kind is TypeDefKind::Type(Type::Id(_)) is skipped:    *)
(* analyze_type returns None for it, so no list of analyzed types has an   *)
(* entry with its name, and the emitted tokens declare no type in terms of *)
(* itself.                                                                 *)
(***************************************************************************)
C1_IdAliasSkipped ==
    /\ \A id \in 1..Len(resolve.types) :
          IsIdAlias(id) => analyze_type(resolve, id) = Skip
    /\ analyzed.r = "ok" =>
          \A l \in TypeLists :
              \A i \in 1..Len(l.ids) :
                  IsIdAlias(l.ids[i]) =>
                      \A j \in 1..Len(l.types) :
                          l.types[j].name # resolve.types[l.ids[i]].name.v
    /\ output.r = "ok" =>
          \A i \in 1..Len(output.v) : ~SelfReferential(output.v, i)

\* A world that imports such a type has been analyzed and emitted.
C1_Witness ==
    /\ ImportsIdAlias
    /\ analyzed.r = "ok"
    /\ output.r = "ok"
    /\ Len(output.v) > 0

(***************************************************************************)
(* C2.  analyze keeps the declaration order at every level: interfaces,    *)
(* standalone types and standalone functions follow world.imports; methods *)
(* follow interface.functions; analyzed types follow the source types that *)
(* are not skipped; record fields, enum cases and variant cases follow the *)
(* source TypeDef.                                                         *)
(***************************************************************************)
\* The members of an analyzed definition follow those of the source kind.
MembersInOrder(def, kind) ==
    CASE def.d = "Record" ->
           /\ kind.kind = "Record"
           /\ [i \in 1..Len(def.fields) |-> def.fields[i][1]]
                = [i \in 1..Len(kind.fields) |-> public(kind.fields[i].name)]
      [] def.d \in {"Enum", "Variant"} ->
           /\ kind.kind = def.d
           /\ [i \in 1..Len(def.cases) |->
                 IF def.d = "Enum" THEN def.cases[i] ELSE def.cases[i][1]]
                = Names(kind.cases)
      [] OTHER -> TRUE

C2_DeclarationOrder ==
    analyzed.r = "ok" =>
        /\ Names(analyzed.v.interfaces)
             = [k \in 1..Len(ImportedInterfaces) |-> ImportedInterfaces[k].name.v]
        /\ Names(analyzed.v.standalone_functions) = Names(ImportedFunctions)
        /\ \A k \in 1..Len(analyzed.v.interfaces) :
              Names(analyzed.v.interfaces[k].methods)
                = Names(ImportedInterfaces[k].functions)
        /\ \A l \in TypeLists :
              LET kept == SelectSeq(l.ids, NotIdAlias)
              IN  /\ Names(l.types) = TypeNames(kept)
                  /\ \A i \in 1..Len(l.types) :
                        MembersInOrder(l.types[i].definition,
                                       resolve.types[kept[i]].kind)

\* Two interfaces, one with several methods and one with several types of
\* several members, were analyzed.
C2_Witness ==
    /\ analyzed.r = "ok"
    /\ Len(analyzed.v.interfaces) >= 2
    /\ \E k \in 1..Len(analyzed.v.interfaces) :
          Len(analyzed.v.interfaces[k].methods) >= 2
    /\ \E k \in 1..Len(analyzed.v.interfaces) :
          /\ Len(analyzed.v.interfaces[k].types) >= 2
          /\ \E i \in 1..Len(analyzed.v.interfaces[k].types) :
                LET def == analyzed.v.interfaces[k].types[i].definition
                IN  def.d = "Record" /\ Len(def.fields) >= 2

IsToken(t) == t # Push
StripPush(ts) == SelectSeq(ts, IsToken)

\* The least index from i on at which ts holds tok; Len(ts) + 1 if none.
RECURSIVE IndexFrom(_, _, _)
IndexFrom(ts, tok, i) ==
    IF i > Len(ts) THEN Len(ts) + 1
    ELSE IF ts[i] = tok THEN i
    ELSE IndexFrom(ts, tok, i + 1)

\* The segments of ts between the occurrences of sep.
RECURSIVE SplitOn(_, _)
SplitOn(ts, sep) ==
    LET i == IndexFrom(ts, sep, 1)
    IN  IF i > Len(ts) THEN <<ts>>
        ELSE <<SubSeq(ts, 1, i - 1)>> \o SplitOn(SubSeq(ts, i + 1, Len(ts)), sep)

Contains(ts, tok) == \E i \in 1..Len(ts) : ts[i] = tok

\* sub occurs in ts as a run of consecutive tokens.
ContainsRun(ts, sub) ==
    \E i \in 1..(Len(ts) - Len(sub) + 1) : SubSeq(ts, i, i + Len(sub) - 1) = sub

\* The position of the `(` that opens the parameter list of the closure
\* (`WithFunc(func(`), and of the `)` that closes it.
ParamsOpen(code) == IndexFrom(code, "func", 1) + 1
ParamsClose(code) == IndexFrom(code, ")", ParamsOpen(code))
BodyOpen(code) == IndexFrom(code, "{", ParamsClose(code))

\* The tokens of the parameter list, line breaks dropped.
ParamTokens(code) ==
    StripPush(SubSeq(code, ParamsOpen(code) + 1, ParamsClose(code) - 1))

\* The entries of the parameter list: what the commas separate.  A comma
\* after the last entry, which Go allows, starts no entry.
ParamEntries(code) ==
    LET segs == SplitOn(ParamTokens(code), ",")
    IN  IF segs[Len(segs)] = <<>> THEN SubSeq(segs, 1, Len(segs) - 1) ELSE segs

\* The tokens between the parameter list and the body: the return type.
ReturnTokens(code) ==
    StripPush(SubSeq(code, ParamsClose(code) + 1, BodyOpen(code) - 1))

\* The tokens of the body; the closure ends `}).` and `Export("name").`
BodyTokens(code) == SubSeq(code, BodyOpen(code) + 1, Len(code) - 9)

\* The calls of generate_host_function_builder that returned a closure.
Closures == {i \in 1..Len(built) : built[i].ret.r = "ok"}

(***************************************************************************)
(* C4.  The parameter list of every emitted closure has 2 + wasm_arity     *)
(* entries: `ctx context.Context`, `mod api.Module`, then one per Wasm     *)
(* argument, in order; no entry is empty, so no two commas are adjacent.   *)
(***************************************************************************)
C4_ParameterList ==
    \A c \in Closures :
        LET code == built[c].ret.v
            entries == ParamEntries(code)
            arity == Len(built[c].sig.params)
        IN  /\ Len(entries) = 2 + arity
            /\ entries[1] = <<"ctx", "context.Context">>
            /\ entries[2] = <<"mod", "api.Module">>
            /\ \A k \in 1..arity :
                  /\ Len(entries[2 + k]) = 2
                  /\ entries[2 + k][1] = "arg" \o ToString(k - 1)
            /\ \A k \in 1..Len(entries) : entries[k] # <<>>
            /\ ~ContainsRun(ParamTokens(code), <<",", ",">>)

\* Closures of arity zero, and of an arity above the number of WIT
\* parameters, were emitted.
C4_Witness ==
    /\ \E c \in Closures : Len(built[c].sig.params) = 0
    /\ \E c \in Closures :
          Len(built[c].sig.params) > Len(built[c].method.parameters) + 1

(***************************************************************************)
(* C6.  A closure declares a return type exactly when the signature has    *)
(* one result; the type is resolve_wasm_type of that result (uint32 for a  *)
(* bool, enum or char result) and the body then holds a return statement.  *)
(***************************************************************************)
C6_ReturnType ==
    \A c \in Closures :
        LET code == built[c].ret.v
            results == built[c].sig.results
            func == built[c].method.wit_function
        IN  /\ ReturnTokens(code) # <<>> <=> Len(results) = 1
            /\ Len(results) = 1 =>
                  /\ ReturnTokens(code)
                       = <<FormatGoType(resolve_wasm_type(results[1]))>>
                  /\ Contains(BodyTokens(code), "return")
            /\ Len(results) = 0 => ReturnTokens(code) = <<>>
            /\ (func.result.some
                  /\ Shape(resolve, func.result.v) \in {"bool", "enum", "char"})
                  => ReturnTokens(code) = <<"uint32">>

\* A closure for a function that returns an enum and one for a function
\* without result were emitted.
C6_Witness ==
    /\ \E c \in Closures :
          /\ built[c].method.wit_function.result.some
          /\ Shape(resolve, built[c].method.wit_function.result.v) = "enum"
          /\ Len(built[c].sig.results) = 1
    /\ \E c \in Closures : Len(built[c].sig.results) = 0

(***************************************************************************)
(* C5.  For an import with no WIT parameter and no result the parameter    *)
(* list is exactly `ctx context.Context, mod api.Module,`: the two fixed   *)
(* parameters, each followed by one comma, the second comma standing       *)
(* right before the closing parenthesis.                                   *)
(***************************************************************************)
\* The closures of the functions without parameter and without result.
NullaryClosures ==
    {c \in Closures :
        /\ built[c].method.wit_function.params = <<>>
        /\ ~built[c].method.wit_function.result.some}

Err(kind) == [r |-> "error", kind |-> kind]

ValueSlotHelpers ==
    {"api.EncodeU32", "api.DecodeU32", "api.EncodeI32", "api.DecodeI32",
     "api.EncodeF32", "api.DecodeF32", "api.EncodeF64", "api.DecodeF64"}

IntegerShapes == {"u32", "s32", "u64"}

\* The closures of the functions over primitive integers only.
IntegerClosures ==
    {c \in Closures :
        LET func == built[c].method.wit_function
        IN  /\ \A k \in 1..Len(func.params) :
                  Shape(resolve, func.params[k].ty) \in IntegerShapes
            /\ func.result.some =>
                  Shape(resolve, func.result.v) \in IntegerShapes}

C8_IdentityCasts ==
    \A c \in IntegerClosures :
        LET code == built[c].ret.v
            func == built[c].method.wit_function
        IN  /\ \A i \in 1..Len(code) : code[i] \notin ValueSlotHelpers
            /\ \A k \in 1..Len(func.params) :
                  Shape(resolve, func.params[k].ty) = "u32" =>
                      ContainsRun(BodyTokens(code),
                          <<"uint32", "(", "arg" \o ToString(k - 1), ")">>)

\* The closure of a function of two u32 parameters and a u32 result was
\* emitted.
C8_Witness ==
    \E c \in IntegerClosures :
        LET func == built[c].method.wit_function
        IN  /\ Len(func.params) = 2
            /\ \A k \in 1..2 : func.params[k].ty = Prim("u32")
            /\ func.result = Some(Prim("u32"))

(***************************************************************************)
(* C9.  Each parameter of a closure after ctx and mod is declared with the *)
(* Go type of the Wasm type of that argument: uint32 for i32, uint64 for   *)
(* i64, float32 for f32, float64 for f64.                                  *)
(***************************************************************************)
C9_ParameterTypes ==
    \A c \in Closures :
        LET entries == ParamEntries(built[c].ret.v)
            params == built[c].sig.params
        IN  \A k \in 1..Len(params) :
                /\ 2 + k <= Len(entries)
                /\ Len(entries[2 + k]) = 2
                /\ entries[2 + k][2] = FormatGoType(resolve_wasm_type(params[k]))

(***************************************************************************)
(* C10.  The Record definition of a record type has as many fields as the  *)
(* source record, in the same order; field i is named                      *)
(* GoIdentifier::public of the source name (float32 -> Float32, s -> S)    *)
(* and typed resolve_type of the source type.                              *)
(***************************************************************************)
\* The analyzed types of the IR, each with the id of its source type.
AnalyzedWithSource ==
    UNION {LET kept == SelectSeq(l.ids, NotIdAlias)
           IN  {[id |-> kept[i], typ |-> l.types[i]] : i \in 1..Len(l.types)} :
           l \in TypeLists}

C10_RecordFields ==
    analyzed.r = "ok" =>
        \A a \in AnalyzedWithSource :
            LET kind == resolve.types[a.id].kind
                def == a.typ.definition
            IN  kind.kind = "Record" =>
                  /\ def.d = "Record"
                  /\ Len(def.fields) = Len(kind.fields)
                  /\ \A i \in 1..Len(kind.fields) :
                        /\ def.fields[i][1] = public(kind.fields[i].name)
                        /\ def.fields[i][2] = resolve_type(kind.fields[i].ty, resolve)
                  /\ a.id = FooId =>
                        [i \in 1..Len(def.fields) |-> def.fields[i][1]]
                          = <<"Float32", "Float64", "Uint32", "Uint64", "S">>

\* A record whose second field is named by two words and typed by an enum
\* was analyzed.
C10_Witness ==
    /\ analyzed.r = "ok"
    /\ \E a \in AnalyzedWithSource :
          /\ resolve.types[a.id].kind.kind = "Record"
          /\ Len(a.typ.definition.fields) = 2
          /\ a.typ.definition.fields[2] = <<"MyS", GoUser("Status")>>

(***************************************************************************)
(* Reading the emitted declarations.                                       *)
(***************************************************************************)
\* The analyzed types in the order format_into visits them, and the kinds of
\* their source types in the same order.
EmittedTypes ==
    Flatten([k \in 1..Len(analyzed.v.interfaces) |->
               analyzed.v.interfaces[k].types])
      \o analyzed.v.standalone_types

EmittedKinds ==
    LET ids == Flatten([k \in 1..Len(ImportedInterfaces) |->
                          SelectSeq(ImportedInterfaces[k].types, NotIdAlias)])
                 \o SelectSeq(ImportedTypeIds, NotIdAlias)
    IN  [i \in 1..Len(ids) |-> resolve.types[ids[i]].kind]

IsEnumKind(kind) == kind.kind = "Enum"
NonEmpty(ts) == ts # <<>>

\* The blocks of the output: what the blank lines separate.
Blocks(tokens) == SelectSeq(SplitOn(tokens, Line), NonEmpty)

IsConstBlock(block) == block[1] = "const"
ConstBlocks(tokens) == SelectSeq(Blocks(tokens), IsConstBlock)

\* The lines of a const block between `const (` and `)`.
ConstSpecs(block) ==
    SelectSeq(SplitOn(SubSeq(block, 3, Len(block) - 1), Push), NonEmpty)

\* The value Go gives the constant of line i of a const block: iota is the
\* index of the line in its block, counted from zero.
ConstValue(specs, i) ==
    IF Len(specs[i]) = 4 /\ specs[i][3] = "=" /\ specs[i][4] = "iota"
    THEN i - 1
    ELSE -1

(***************************************************************************)
(* C11.  An enum of N cases is emitted with one const block of exactly N   *)
(* constants; constant i is named GoIdentifier::public of the i-th         *)
(* declared case and has the value i - 1, so the values are 0..N-1 in      *)
(* declared order.                                                         *)
(***************************************************************************)
C11_EnumConstants ==
    output.r = "ok" =>
        LET enums == SelectSeq(EmittedKinds, IsEnumKind)
            blocks == ConstBlocks(output.v)
        IN  /\ Len(blocks) = Len(enums)
            /\ \A k \in 1..Len(enums) :
                  LET specs == ConstSpecs(blocks[k])
                      cases == enums[k].cases
                  IN  /\ Len(specs) = Len(cases)
                      /\ \A i \in 1..Len(cases) :
                            /\ specs[i][1] = public(cases[i].name)
                            /\ ConstValue(specs, i) = i - 1
                      /\ Names(cases) = <<<<"ok">>, <<"error">>>> =>
                            [i \in 1..2 |-> <<specs[i][1], ConstValue(specs, i)>>]
                              = <<<<"Ok", 0>>, <<"Error", 1>>>>

\* An enum whose second case is named by two words was emitted.
C11_Witness ==
    /\ output.r = "ok"
    /\ \E k \in 1..Len(EmittedKinds) :
          /\ IsEnumKind(EmittedKinds[k])
          /\ Names(EmittedKinds[k].cases) = <<<<"ok">>, <<"is", "ok">>>>
    /\ ContainsRun(output.v, <<"IsOk", "bar", "=", "iota">>)

(***************************************************************************)
(* The types a world imports, and what analysis makes of them.             *)
(***************************************************************************)
\* The ids of the types the analyzer visits: those of the imported
\* interfaces and those the world imports directly.
ImportedTypes ==
    UNION {Range(ImportedInterfaces[k].types) : k \in 1..Len(ImportedInterfaces)}
      \cup Range(ImportedTypeIds)

\* A type declared as an alias of a primitive: `type x = u32`.
IsPrimitiveAlias(id) ==
    LET kind == resolve.types[id].kind
    IN  kind.kind = "Type" /\ kind.ty.tag = "prim" /\ kind.ty.p \in Primitives

\* The analyzed types that were built from the source type id.
AnalyzedOf(id) == {a.typ : a \in {b \in AnalyzedWithSource : b.id = id}}

\* Nothing was produced after a failed analysis.
NothingEmitted == output = NotRun /\ chains = NotRun /\ built = <<>>

(***************************************************************************)
(* C12.  An alias over string is analyzed to TypeDefinition::Alias with    *)
(* the target string; an alias over any other primitive is a placeholder   *)
(* at which analysis panics; an alias over Type::Id is skipped.            *)
(***************************************************************************)
C12_StringAliasOnly ==
    analyzed # NotRun =>
        \A id \in ImportedTypes :
            LET kind == resolve.types[id].kind
                def == analyze_type_definition(resolve, kind)
            IN  /\ (IsPrimitiveAlias(id) /\ kind.ty.p = "string") =>
                      /\ def = Ok([d |-> "Alias", target |-> GoPrim("string")])
                      /\ analyzed.r = "ok" =>
                            /\ AnalyzedOf(id) # {}
                            /\ \A t \in AnalyzedOf(id) :
                                  t.definition
                                    = [d |-> "Alias", target |-> GoPrim("string")]
                /\ (IsPrimitiveAlias(id) /\ kind.ty.p # "string") =>
                      /\ def.r = "panic"
                      /\ analyzed.r = "panic"
                /\ IsIdAlias(id) =>
                      /\ def = Skip
                      /\ analyzed.r = "ok" => AnalyzedOf(id) = {}

\* C12 as the specification words it: every alias over a primitive is
\* analyzed to an Alias.
C12_EveryPrimitiveAlias ==
    analyzed # NotRun =>
        \A id \in ImportedTypes :
            IsPrimitiveAlias(id) =>
                LET def == analyze_type_definition(resolve, resolve.types[id].kind)
                IN  def.r = "ok" /\ def.v.d = "Alias"

\* A world with an alias over string, named by two words, was analyzed.
C12_Witness ==
    /\ analyzed.r = "ok"
    /\ \E id \in ImportedTypes :
          /\ IsPrimitiveAlias(id)
          /\ resolve.types[id].kind.ty.p = "string"
          /\ \E t \in AnalyzedOf(id) : t.go_type_name = "MyFoo"

(***************************************************************************)
(* C13.  When a world imports a type of an unimplemented kind (list,       *)
(* option, result, flags, tuple, fixed-length list, map, future, stream,   *)
(* resource, handle, error-context), analysis panics: analyze returns no   *)
(* AnalyzedImports, and nothing is emitted in that pass.  When that type   *)
(* is the only import that fails, the panic is its todo!().                *)
(***************************************************************************)
UnimplementedKinds == TodoKinds \ {"Unknown"}

IsUnimplemented(id) ==
    LET kind == resolve.types[id].kind
    IN  \/ kind.kind \in UnimplementedKinds
        \/ kind.kind = "Type" /\ kind.ty.tag = "prim"
             /\ kind.ty.p = "error-context"

ImportsUnimplemented == \E id \in ImportedTypes : IsUnimplemented(id)

\* Every imported interface and type has a name.
AllNamed ==
    /\ \A k \in 1..Len(ImportedInterfaces) : ImportedInterfaces[k].name.some
    /\ \A id \in ImportedTypes : resolve.types[id].name.some

C13_UnimplementedPanics ==
    (ImportsUnimplemented /\ analyzed # NotRun) =>
        /\ analyzed.r = "panic"
        /\ NothingEmitted
        /\ (AllNamed /\ \A id \in ImportedTypes :
                           IsUnimplemented(id) \/ ~IsPrimitiveAlias(id)
                               \/ resolve.types[id].kind.ty.p = "string") =>
              analyzed.msg \in
                 {"not yet implemented: generate type definition",
                  "not yet implemented: generate type alias"}

\* C13 as the specification words it: the pass returns an
\* UnsupportedTypeDef error value.
C13_UnsupportedTypeDefError ==
    (ImportsUnimplemented /\ analyzed # NotRun) =>
        /\ analyzed.r = "error"
        /\ analyzed.kind = "UnsupportedTypeDef"
        /\ NothingEmitted

\* A world that imports a list type after a type that is analyzed was
\* analyzed.
C13_Witness ==
    /\ analyzed.r = "panic"
    /\ Len(world.imports) = 2
    /\ world.imports[1].item = "Type"
    /\ resolve.types[world.imports[1].id].kind.kind = "Enum"
    /\ world.imports[2].item = "Type"
    /\ resolve.types[world.imports[2].id].kind.kind = "List"
    /\ resolve.types[world.imports[2].id].name.some

(***************************************************************************)
(* C14.  When an imported interface or an imported type has no name,       *)
(* analysis panics at the expect() on the name and analyze returns no      *)
(* AnalyzedImports; nothing is emitted in that pass.  When the first       *)
(* import is the one without a name, the panic is that of its expect().    *)
(***************************************************************************)
ImportsUnnamed == ~AllNamed

\* The first import is an interface without a name.
FirstIsUnnamedInterface ==
    /\ world.imports # <<>>
    /\ world.imports[1].item = "Interface"
    /\ ~resolve.interfaces[world.imports[1].id].name.some

\* The first import is a type without a name.
FirstIsUnnamedType ==
    /\ world.imports # <<>>
    /\ world.imports[1].item = "Type"
    /\ ~resolve.types[world.imports[1].id].name.some

C14_MissingNamePanics ==
    (ImportsUnnamed /\ analyzed # NotRun) =>
        /\ analyzed.r = "panic"
        /\ NothingEmitted
        /\ FirstIsUnnamedInterface => analyzed = Panic("interface missing name")
        /\ FirstIsUnnamedType => analyzed = Panic("type missing name")

\* C14 as the specification words it: the analysis returns a MissingName
\* error value.
C14_MissingNameError ==
    (ImportsUnnamed /\ analyzed # NotRun) =>
        /\ analyzed.r = "error"
        /\ analyzed.kind = "MissingName"

\* A world whose second import is an interface without a name was analyzed.
C14_Witness ==
    /\ analyzed = Panic("interface missing name")
    /\ Len(world.imports) = 2
    /\ world.imports[2].item = "Interface"
    /\ ~resolve.interfaces[world.imports[2].id].name.some

(***************************************************************************)
(* The identifiers an emitted module declares.                             *)
(***************************************************************************)
\* The name declared by the tokens at position i, "" if none: public ones by
\* `type X interface`, `type X struct`, `type X =` and by the lines of a
\* const block; private ones by `type x int` and `func (x) isX()`.
DeclaredAt(tokens, i, public_names) ==
    IF tokens[i] = "type" /\ i + 2 <= Len(tokens)
    THEN IF public_names = (tokens[i + 2] # "int") THEN tokens[i + 1] ELSE ""
    ELSE IF tokens[i] = "func" /\ i + 4 <= Len(tokens)
    THEN IF public_names THEN "" ELSE tokens[i + 4]
    ELSE IF tokens[i] = "=" /\ i + 1 <= Len(tokens) /\ tokens[i + 1] = "iota"
    THEN IF public_names THEN tokens[i - 2] ELSE ""
    ELSE ""

IsName(name) == name # ""

DeclaredNames(tokens, public_names) ==
    SelectSeq([i \in 1..Len(tokens) |-> DeclaredAt(tokens, i, public_names)],
              IsName)

PublicNames == DeclaredNames(output.v, TRUE)
PrivateNames == DeclaredNames(output.v, FALSE)

(***************************************************************************)
(* C15.  Within one emitted module the identifiers of one visibility are   *)
(* pairwise distinct: whenever format_into has emitted a module, neither   *)
(* its public names (interface types, record, alias and enum type names,   *)
(* enum constants) nor its private names (enum underlying types, enum      *)
(* marker methods) hold a duplicate; a collision is reported instead.      *)
(***************************************************************************)
C15_UniqueIdentifiers ==
    output.r = "ok" => NoDup(PublicNames) /\ NoDup(PrivateNames)

(***************************************************************************)
(* C16.  wazero_module_name of an analyzed interface is                    *)
(* "{namespace}:{package name}/{interface name}" when the interface        *)
(* belongs to a package and the bare interface name when it has none; the  *)
(* name field is the interface name unchanged.                             *)
(***************************************************************************)
\* The text of the module name of the source interface.
ExpectedModuleName(interface) ==
    IF interface.package.some
    THEN Kebab(resolve.packages[interface.package.v].namespace) \o ":"
           \o Kebab(resolve.packages[interface.package.v].name) \o "/"
           \o Kebab(interface.name.v)
    ELSE Kebab(interface.name.v)

C16_ModuleName ==
    analyzed.r = "ok" =>
        \A k \in 1..Len(analyzed.v.interfaces) :
            LET a == analyzed.v.interfaces[k]
                interface == ImportedInterfaces[k]
                text == Concat(a.wazero_module_name)
            IN  /\ text = ExpectedModuleName(interface)
                /\ a.name = interface.name.v
                /\ interface.name.v = <<"logger">> => text = "test:pkg/logger"
                /\ interface.name.v = <<"my", "types">> =>
                      text = "foo:bar/my-types"
                /\ interface.name.v = <<"host">> => text = "host"

\* An interface of a package and an interface without package were analyzed.
C16_Witness ==
    /\ analyzed.r = "ok"
    /\ \E k \in 1..Len(analyzed.v.interfaces) :
          analyzed.v.interfaces[k].name = <<"host">>
    /\ \E k \in 1..Len(analyzed.v.interfaces) :
          analyzed.v.interfaces[k].name = <<"logger">>

(***************************************************************************)
(* C17.  For a world named W, analyze sets factory_name to                 *)
(* public("W-factory"), instance_name to public("W-instance") and          *)
(* constructor_name to public("new-W-factory"): the three names are a      *)
(* function of the world name alone, whatever the world imports.           *)
(***************************************************************************)
\* The three names, by world name.
FactoryNamesOf(name) ==
    CASE name = <<"test", "world">> ->
           <<"TestWorldFactory", "TestWorldInstance", "NewTestWorldFactory">>
      [] name = <<"foo">> -> <<"FooFactory", "FooInstance", "NewFooFactory">>

C17_FactoryNames ==
    analyzed.r = "ok" =>
        /\ analyzed.v.factory_name = public(world.name \o <<"factory">>)
        /\ analyzed.v.instance_name = public(world.name \o <<"instance">>)
        /\ analyzed.v.constructor_name
             = public(<<"new">> \o world.name \o <<"factory">>)
        /\ <<analyzed.v.factory_name, analyzed.v.instance_name,
             analyzed.v.constructor_name>> = FactoryNamesOf(world.name)

\* The world foo was analyzed with two imports.
C17_Witness ==
    /\ analyzed.r = "ok"
    /\ world.name = <<"foo">>
    /\ Len(world.imports) = 2
    /\ analyzed.v.interfaces # <<>>

(***************************************************************************)
(* Reading an import chain.                                                *)
(***************************************************************************)
\* The chain returned under the module name of an analyzed interface.
ChainOf(interface) ==
    (CHOOSE e \in Range(chains.v) : e.key = interface.wazero_module_name).value

IsStepMarker(t) ==
    t \in {"wazeroRuntime.NewHostModuleBuilder", "NewFunctionBuilder",
           "WithFunc", "Export", "Instantiate"}

\* The positions of the token tok in the chain, in order.
PositionsOf(chain, tok) ==
    SelectSeq([i \in 1..Len(chain) |-> i], LAMBDA i : chain[i] = tok)

\* The tokens that follow `Export(` in the chain, in order.
ExportedNames(chain) ==
    LET at == PositionsOf(chain, "Export")
    IN  [k \in 1..Len(at) |-> chain[at[k] + 2]]

\* The tokens of step j of the chain: from its NewFunctionBuilder to its
\* Export.
StepTokens(chain, j) ==
    SubSeq(chain, PositionsOf(chain, "NewFunctionBuilder")[j],
                  PositionsOf(chain, "Export")[j])

\* The end of a chain: Instantiate(ctx), then the check of the error.
ChainEnd(err) ==
    <<Push, "Instantiate", "(", "ctx", ")", Push,
      "if", err, "!=", "nil", "{", Push,
      "return", "nil", ",", err, Push, "}">>

\* The interfaces whose chain is in the map: an interface analyzed later
\* under the same module name replaces the chain of an earlier one.
ChainOwners ==
    {n \in 1..Len(analyzed.v.interfaces) :
        \A k \in (n + 1)..Len(analyzed.v.interfaces) :
            analyzed.v.interfaces[k].wazero_module_name
              # analyzed.v.interfaces[n].wazero_module_name}

(***************************************************************************)
(* C18.  Every import chain has the same order of steps: it begins with    *)
(* wazeroRuntime.NewHostModuleBuilder on the module name of the interface, *)
(* holds one NewFunctionBuilder().WithFunc(closure).Export(name) step per  *)
(* method in the declared order, name being the WIT name of the function   *)
(* unchanged and the closure calling through constructor_param_name, and   *)
(* ends with Instantiate(ctx) and `if err != nil { return nil, err }`.     *)
(***************************************************************************)
C18_ChainSteps ==
    chains.r = "ok" =>
        /\ Len(chains.v) = Cardinality(ChainOwners)
        /\ \A n \in ChainOwners :
              LET interface == analyzed.v.interfaces[n]
                  source == ImportedInterfaces[n]
                  chain == ChainOf(interface)
                  err == "err" \o ToString(n - 1)
                  count == Len(source.functions)
              IN  /\ SubSeq(chain, 1, 9)
                       = <<"_", ",", err, ":=",
                           "wazeroRuntime.NewHostModuleBuilder", "(",
                           quoted(ExpectedModuleName(source)), ")", ".">>
                  /\ SelectSeq(chain, IsStepMarker)
                       = <<"wazeroRuntime.NewHostModuleBuilder">>
                           \o Flatten([j \in 1..count |->
                                 <<"NewFunctionBuilder", "WithFunc", "Export">>])
                           \o <<"Instantiate">>
                  /\ ExportedNames(chain)
                       = [j \in 1..count |->
                             quoted(Kebab(source.functions[j].name))]
                  /\ \A j \in 1..count :
                        ContainsRun(StepTokens(chain, j),
                            <<interface.constructor_param_name, ".",
                              interface.methods[j].go_method_name, "(", "ctx">>)
                  /\ SubSeq(chain, Len(chain) - 17, Len(chain)) = ChainEnd(err)

\* The chain of an interface with the two methods is-ok and ping, imported
\* after another interface, was returned.
C18_Witness ==
    /\ chains.r = "ok"
    /\ Len(analyzed.v.interfaces) = 2
    /\ Names(analyzed.v.interfaces[2].methods) = <<<<"is", "ok">>, <<"ping">>>>
    /\ ExportedNames(ChainOf(analyzed.v.interfaces[2]))
         = <<"\"is-ok\"", "\"ping\"">>

(***************************************************************************)
(* C19.  format_into emits every analyzed type exactly once and in order:  *)
(* for each interface its declaration, then one emission per entry of its  *)
(* types list, and afterwards one per entry of standalone_types.  A Record *)
(* is emitted as `type Name struct { ... }` with one line per field, an    *)
(* Enum as its four declarations, an Alias as `type Name = target`, and a  *)
(* Variant as a comment only: `// Variant type: name (TODO: implement)`.   *)
(***************************************************************************)
\* The first three tokens of each block a type is emitted as.
TypeHeads(typ) ==
    CASE typ.definition.d = "Record" -> <<<<"type", typ.go_type_name, "struct">>>>
      [] typ.definition.d = "Enum" ->
           <<<<"type", typ.go_type_name, "interface">>,
             <<"type", private(typ.name), "int">>,
             <<"func", "(", private(typ.name)>>,
             <<"const", "(", Push>>>>
      [] typ.definition.d = "Alias" -> <<<<"type", typ.go_type_name, "=">>>>
      [] typ.definition.d = "Variant" -> <<<<"//", "Variant", "type:">>>>

AllTypeHeads(types) == Flatten([i \in 1..Len(types) |-> TypeHeads(types[i])])

\* The first three tokens of every block format_into is to emit.
ExpectedHeads ==
    Flatten([n \in 1..Len(analyzed.v.interfaces) |->
               <<<<"type", analyzed.v.interfaces[n].go_interface_name,
                   "interface">>>>
                 \o AllTypeHeads(analyzed.v.interfaces[n].types)])
      \o AllTypeHeads(analyzed.v.standalone_types)

\* The lines of a struct block between `{` and `}`.
StructLines(block) ==
    SelectSeq(SplitOn(SubSeq(block, 5, Len(block) - 1), Push), NonEmpty)

IsStructBlock(block) == Len(block) >= 3 /\ block[3] = "struct"
IsRecordType(typ) == typ.definition.d = "Record"

SkippedItems ==
    SelectSeq(world.imports,
              LAMBDA it : IsTypeItem(it) /\ IsIdAlias(it.id))

C20_Partition ==
    analyzed.r = "ok" =>
        LET a == analyzed.v
        IN  /\ Len(a.interfaces) = Len(SelectSeq(world.imports, IsInterfaceItem))
            /\ Len(a.standalone_functions)
                 = Len(SelectSeq(world.imports, IsFunctionItem))
            /\ Len(a.standalone_types)
                 = Len(SelectSeq(ImportedTypeIds, NotIdAlias))
            /\ Len(a.interfaces) + Len(a.standalone_functions)
                 + Len(a.standalone_types)
                 = Len(world.imports) - Len(SkippedItems)
            /\ Names(a.interfaces)
                 = [k \in 1..Len(ImportedInterfaces) |->
                       ImportedInterfaces[k].name.v]
            /\ Names(a.standalone_functions) = Names(ImportedFunctions)
            /\ Names(a.standalone_types)
                 = TypeNames(SelectSeq(ImportedTypeIds, NotIdAlias))

\* A world that imports a function and a type that only names another one
\* was analyzed, and so one of its two items is in no list.
C20_Witness ==
    /\ analyzed.r = "ok"
    /\ Len(world.imports) = 2
    /\ Len(SkippedItems) = 1
    /\ Len(analyzed.v.standalone_functions) = 1
    /\ analyzed.v.standalone_types = <<>>
    /\ analyzed.v.interfaces = <<>>

(***************************************************************************)
(* C21.  Every imported function of the world, a method of an imported     *)
(* interface or a function imported directly, is exported by exactly one   *)
(* Export step of the chains import_chains returns.                        *)
(***************************************************************************)
\* The names exported by all the chains returned, in the order of the map.
AllExportedNames ==
    Flatten([k \in 1..Len(chains.v) |-> ExportedNames(chains.v[k].value)])

\* The WIT names of every function the world imports: the methods of its
\* interfaces, then the functions imported directly.
AllImportedFunctionNames ==
    Flatten([k \in 1..Len(ImportedInterfaces) |->
               Names(ImportedInterfaces[k].functions)])
      \o Names(ImportedFunctions)

\* How many of the exported names are the name n.
TimesExported(n) ==
    Len(SelectSeq(AllExportedNames, LAMBDA e : e = quoted(Kebab(n))))

C21_EveryFunctionExported ==
    chains.r = "ok" =>
        /\ Len(AllExportedNames) = Len(AllImportedFunctionNames)
        /\ \A i \in 1..Len(AllImportedFunctionNames) :
              TimesExported(AllImportedFunctionNames[i]) >= 1

(***************************************************************************)
(* C22.  In the closure of an import every string parameter is read from   *)
(* guest memory (mod.Memory().Read) before the statement that calls the    *)
(* native callback; a string result is written back by writeString after   *)
(* that call; the closure of an import whose parameters are all u32 reads  *)
(* no memory.                                                              *)
(***************************************************************************)
\* The positions in the body at which the callback of the method is
\* called: `.Method(`.
CallPositions(c) ==
    LET body == BodyTokens(built[c].ret.v)
    IN  SelectSeq([i \in 1..Len(body) |-> i],
                  LAMBDA i : /\ i + 2 <= Len(body)
                             /\ body[i] = "."
                             /\ body[i + 1] = built[c].method.go_method_name
                             /\ body[i + 2] = "(")

\* The parameters of the function of closure c whose shape is in shapes.
ParamsOfShape(c, shapes) ==
    SelectSeq(built[c].method.wit_function.params,
              LAMBDA p : Shape(resolve, p.ty) \in shapes)

C22_ReadCallWrite ==
    \A c \in Closures :
        LET body == BodyTokens(built[c].ret.v)
            func == built[c].method.wit_function
            reads == PositionsOf(body, "mod.Memory().Read")
            writes == PositionsOf(body, "writeString")
            calls == CallPositions(c)
        IN  /\ Len(calls) = 1
            /\ Len(reads) = Len(ParamsOfShape(c, {"string"}))
            /\ \A k \in 1..Len(reads) : reads[k] < calls[1]
            /\ (func.result.some /\ Shape(resolve, func.result.v) = "string")
                  => /\ Len(writes) = 1
                     /\ calls[1] < writes[1]
            /\ (func.params # <<>>
                  /\ Len(ParamsOfShape(c, {"u32"})) = Len(func.params))
                  => reads = <<>>

\* The closure of a function from string to string, and the closure of a
\* function of u32 parameters only, were emitted.
C22_Witness ==
    /\ \E c \in Closures :
          /\ ParamsOfShape(c, {"string"}) # <<>>
          /\ built[c].method.wit_function.result = Some(Prim("string"))
          /\ Contains(BodyTokens(built[c].ret.v), "writeString")
    /\ \E c \in Closures :
          /\ Len(built[c].method.wit_function.params) = 2
          /\ Len(ParamsOfShape(c, {"u32"})) = 2

(***************************************************************************)
(* C23.  format_into emits one Go interface declaration for every imported *)
(* interface, named public("i-{world name}-{interface name}"); it lists    *)
(* one signature per method in the declared order, named by the public     *)
(* name of the method, taking `ctx context.Context` first and then the     *)
(* parameters in the declared order, and having a return type exactly      *)
(* when the method has a result.                                           *)
(***************************************************************************)
\* The name of the Go interface of an imported interface.
ExpectedInterfaceName(interface) ==
    public(<<"i">> \o world.name \o interface.name.v)

ExpectedInterfaceNames ==
    [n \in 1..Len(ImportedInterfaces) |->
        ExpectedInterfaceName(ImportedInterfaces[n])]

\* The blocks of the output that declare the Go interface of an imported
\* interface.
InterfaceBlocks ==
    SelectSeq(Blocks(output.v),
              LAMBDA b : /\ Len(b) >= 4
                         /\ b[1] = "type"
                         /\ b[2] \in Range(ExpectedInterfaceNames)
                         /\ b[3] = "interface"
                         /\ b[4] = "{")

\* The signature of a WIT function as a Go method, line breaks dropped.
ExpectedSignature(func) ==
    <<public(func.name), "(", "ctx", "context.Context", ",">>
      \o Flatten([i \in 1..Len(func.params) |->
                    <<private(func.params[i].name),
                      FormatGoType(resolve_type(func.params[i].ty, resolve)),
                      ",">>])
      \o <<")">>
      \o (IF func.result.some
          THEN <<FormatGoType(resolve_type(func.result.v, resolve))>>
          ELSE <<>>)

C23_InterfaceDeclarations ==
    output.r = "ok" =>
        /\ Len(InterfaceBlocks) = Len(ImportedInterfaces)
        /\ \A n \in 1..Len(ImportedInterfaces) :
              LET block == InterfaceBlocks[n]
                  source == ImportedInterfaces[n]
              IN  /\ block[2] = ExpectedInterfaceName(source)
                  /\ block[Len(block)] = "}"
                  /\ StripPush(SubSeq(block, 5, Len(block) - 1))
                       = Flatten([j \in 1..Len(source.functions) |->
                                    ExpectedSignature(source.functions[j])])
                  /\ (world.name = <<"test", "world">>
                        /\ source.name.v = <<"logger">>)
                        => block[2] = "ITestWorldLogger"

\* The interfaces logger and host of the world test-world were declared:
\* ITestWorldLogger with Log, and ITestWorldHost with IsOk, which has a
\* result, before Ping, which has none.
C23_Witness ==
    /\ output.r = "ok"
    /\ Len(InterfaceBlocks) = 2
    /\ SubSeq(InterfaceBlocks[1], 1, 7)
         = <<"type", "ITestWorldLogger", "interface", "{", Push, "Log", "(">>
    /\ StripPush(SubSeq(InterfaceBlocks[2], 5, Len(InterfaceBlocks[2]) - 1))
         = <<"IsOk", "(", "ctx", "context.Context", ",", "s", "string", ",",
             ")", "bool",
             "Ping", "(", "ctx", "context.Context", ",", ")">>

(***************************************************************************)
(* C24.  The InterfaceMethod analyzed from a WIT function has the          *)
(* parameters of the function, as many and in the same order, each with    *)
(* the WIT type of the source parameter and the Go type resolve_type gives *)
(* it; it has a return type exactly when the function has a result; its    *)
(* name is the WIT name of the function and its wit_function the function. *)
(***************************************************************************)
\* Every analyzed method paired with the function it was analyzed from.
MethodsWithSource ==
    UNION {{[method |-> analyzed.v.interfaces[n].methods[j],
             func |-> ImportedInterfaces[n].functions[j]] :
               j \in 1..Len(analyzed.v.interfaces[n].methods)} :
           n \in 1..Len(analyzed.v.interfaces)}

C24_InterfaceMethod ==
    analyzed.r = "ok" =>
        /\ \A n \in 1..Len(analyzed.v.interfaces) :
              Len(analyzed.v.interfaces[n].methods)
                = Len(ImportedInterfaces[n].functions)
        /\ \A m \in MethodsWithSource :
              /\ Len(m.method.parameters) = Len(m.func.params)
              /\ \A i \in 1..Len(m.func.params) :
                    /\ m.method.parameters[i].wit_type = m.func.params[i].ty
                    /\ m.method.parameters[i].go_type
                         = resolve_type(m.func.params[i].ty, resolve)
                    /\ m.func.params[i].ty = Prim("string") =>
                          FormatGoType(m.method.parameters[i].go_type) = "string"
              /\ m.method.return_type.some <=> m.func.result.some
              /\ m.func.result.some =>
                    /\ m.method.return_type.v.wit_type = m.func.result.v
                    /\ m.method.return_type.v.go_type
                         = resolve_type(m.func.result.v, resolve)
              /\ m.method.name = m.func.name
              /\ m.method.wit_function = m.func

\* A method of two parameters of different types and a result, and a
\* method without result, were analyzed.
C24_Witness ==
    /\ analyzed.r = "ok"
    /\ \E m \in MethodsWithSource :
          /\ Len(m.func.params) = 2
          /\ m.func.params[1].ty = Prim("string")
          /\ m.func.params[2].ty = Prim("u32")
          /\ m.func.result.some
          /\ Len(m.method.parameters) = 2
    /\ \E m \in MethodsWithSource :
          ~m.func.result.some /\ ~m.method.return_type.some

(***************************************************************************)
(* C25.  The Go type emitted for an enum is an integer newtype whose width *)
(* is that of the Canonical-ABI discriminant for the number of cases of    *)
(* the enum, and the constants of the enum are of that type.               *)
(***************************************************************************)
\* The bits of the discriminant of a type of n cases: the smallest of u8,
\* u16 and u32 that holds n - 1.
DiscriminantWidth(n) ==
    IF n <= 256 THEN 8 ELSE IF n <= 65536 THEN 16 ELSE 32

\* The widths a Go integer type may have; int and uint are as wide as the
\* platform's word.
GoIntegerWidths(t) ==
    CASE t \in {"int8", "uint8"} -> {8}
      [] t \in {"int16", "uint16"} -> {16}
      [] t \in {"int32", "uint32"} -> {32}
      [] t \in {"int64", "uint64"} -> {64}
      [] t \in {"int", "uint"} -> {32, 64}
      [] OTHER -> {}

\* The blocks `type name underlying` of the output that define name.
NewtypeBlocks(name) ==
    SelectSeq(Blocks(output.v),
              LAMBDA b : Len(b) = 3 /\ b[1] = "type" /\ b[2] = name)

IsEnumType(typ) == typ.definition.d = "Enum"

\* The constants of the enums are of the newtype of their enum.
EnumConstantsTyped ==
    LET enums == SelectSeq(EmittedTypes, IsEnumType)
        consts == ConstBlocks(output.v)
    IN  /\ Len(consts) = Len(enums)
        /\ \A k \in 1..Len(enums) :
              \A s \in 1..Len(ConstSpecs(consts[k])) :
                  ConstSpecs(consts[k])[s][2] = private(enums[k].name)

C25_EnumDiscriminantWidth ==
    output.r = "ok" =>
        LET enums == SelectSeq(EmittedTypes, IsEnumType)
        IN  /\ \A k \in 1..Len(enums) :
                  LET newtypes == NewtypeBlocks(private(enums[k].name))
                  IN  /\ Len(newtypes) >= 1
                      /\ \A b \in 1..Len(newtypes) :
                            GoIntegerWidths(newtypes[b][3])
                              = {DiscriminantWidth(Len(enums[k].definition.cases))}
            /\ EnumConstantsTyped

(***************************************************************************)
(* C26.  A variant is analyzed to TypeDefinition::Variant with one pair of *)
(* case name and optional resolved payload type per case of the source, in *)
(* the declared order; what is emitted for it is a comment only: no Go     *)
(* type is declared and no constant, however many cases it has and         *)
(* whatever their payloads.                                                *)
(***************************************************************************)
\* The positions in EmittedTypes of the types whose source is a variant.
VariantPositions ==
    {k \in 1..Len(EmittedKinds) : EmittedKinds[k].kind = "Variant"}

\* The blocks of the output that are the comment emitted for typ.
StubBlocks(typ) ==
    SelectSeq(Blocks(output.v),
              LAMBDA b : b = <<"//", "Variant", "type:", Kebab(typ.name),
                               "(TODO:", "implement)">>)

AliasPositions ==
    SelectSeq([k \in 1..Len(EmittedTypes) |-> k],
              LAMBDA k : EmittedTypes[k].definition.d = "Alias")

\* The blocks of the output that declare a type alias: `type name = ...`.
AliasBlocks ==
    SelectSeq(Blocks(output.v),
              LAMBDA b : Len(b) >= 3 /\ b[1] = "type" /\ b[3] = "=")

\* The blocks of the output that define a new type over another one:
\* `type name underlying`.
AllNewtypeBlocks ==
    SelectSeq(Blocks(output.v), LAMBDA b : Len(b) = 3 /\ b[1] = "type")

C27_TypeAlias ==
    output.r = "ok" =>
        /\ Len(AliasBlocks) = Len(AliasPositions)
        /\ \A a \in 1..Len(AliasPositions) :
              LET k == AliasPositions[a]
                  typ == EmittedTypes[k]
              IN  /\ EmittedKinds[k].kind = "Type"
                  /\ typ.go_type_name = public(typ.name)
                  /\ AliasBlocks[a]
                       = <<"type", public(typ.name), "=",
                           FormatGoType(resolve_type(EmittedKinds[k].ty, resolve))>>
        /\ Len(AllNewtypeBlocks) = Len(SelectSeq(EmittedTypes, IsEnumType))
        /\ Len(Blocks(output.v)) = Len(ExpectedHeads)

\* The alias my-alias of string was emitted as `type MyAlias = string`.
C27_Witness ==
    /\ output.r = "ok"
    /\ \E a \in 1..Len(AliasPositions) :
          EmittedTypes[AliasPositions[a]].name = <<"my", "alias">>
    /\ ContainsRun(output.v, <<"type", "MyAlias", "=", "string">>)

(***************************************************************************)
(* C28.  The IR is immutable once built: no call of format_into,           *)
(* import_chains or generate_host_function_builder changes the             *)
(* AnalyzedImports, the Resolve or the World, and import_chains called     *)
(* again on the same input returns the chains it returned before.          *)
(***************************************************************************)
\* A step of the generator: the analysis is there before and after it.
GeneratorStep == analyzed.r = "ok" /\ analyzed' # NotRun

C29_OneChainPerInterface ==
    chains.r = "ok" =>
        /\ Len(chains.v) = Len(analyzed.v.interfaces)
        /\ \A n \in 1..Len(analyzed.v.interfaces) :
              /\ \E e \in Range(chains.v) :
                    e.key = analyzed.v.interfaces[n].wazero_module_name
              /\ ExportedNames(ChainOf(analyzed.v.interfaces[n]))
                   = [j \in 1..Len(ImportedInterfaces[n].functions) |->
                         quoted(Kebab(ImportedInterfaces[n].functions[j].name))]

(***************************************************************************)
(* C30.  The mapping of a core Wasm type to a wazero value type is total   *)
(* over the seven Wasm types and groups them as resolve_wasm_type does:    *)
(* I32, Pointer and Length map to ValueTypeI32, I64 and PointerOrI64 to    *)
(* ValueTypeI64, F32 to ValueTypeF32 and F64 to ValueTypeF64.              *)
(***************************************************************************)
C30_ValueTypes ==
    value_types.r = "ok" =>
        /\ Len(value_types.v) = Len(wasm_types)
        /\ \A i \in 1..Len(wasm_types) :
              LET typ == wasm_types[i]
                  vt == value_types.v[i]
              IN  /\ vt \in {"api.ValueTypeI32", "api.ValueTypeI64",
                             "api.ValueTypeF32", "api.ValueTypeF64"}
                  /\ typ \in {"I32", "Pointer", "Length"}
                        <=> vt = "api.ValueTypeI32"
                  /\ typ \in {"I64", "PointerOrI64"} <=> vt = "api.ValueTypeI64"
                  /\ typ = "F32" <=> vt = "api.ValueTypeF32"
                  /\ typ = "F64" <=> vt = "api.ValueTypeF64"
        /\ \A i, j \in 1..Len(wasm_types) :
              value_types.v[i] = value_types.v[j]
                <=> resolve_wasm_type(wasm_types[i])
                      = resolve_wasm_type(wasm_types[j])

\* The types Pointer, PointerOrI64 and Length were mapped, to ValueTypeI32,
\* ValueTypeI64 and ValueTypeI32.
C30_Witness ==
    /\ wasm_types = <<"Pointer", "PointerOrI64", "Length">>
    /\ value_types
         = Ok(<<"api.ValueTypeI32", "api.ValueTypeI64", "api.ValueTypeI32">>)

====
